---- MODULE Spec2Model ----
(***************************************************************************)
(* Model of the report generator's content-fitting engine                  *)
(* (src/src/generate_report.py): the Markdown block parser                 *)
(* parse_markdown_blocks and the height-bounded paginator                  *)
(* split_markdown_by_height.                                               *)
(*                                                                         *)
(* Strings are sequences of one-character strings; "\n" is the line break. *)
(* Python's 0-based indices are 1-based here: the parser's i and the       *)
(* paginator's enumerate index are the source's value plus one.            *)
(***************************************************************************)
EXTENDS Integers, Sequences, FiniteSets, TLC

\* ------------------------------------------------------------------ bounds

\* Longest document, in lines.
MaxLines == 3
\* Largest height the rendering backend reports (in page-budget units).
MaxHeight == 3

\* ------------------------------------------------------------- characters

NL == "\n"
\* The whitespace str.strip() and the regex class \s remove, within the
\* modelled alphabet.
Whitespace == {" ", NL}
Digits == {"0", "1"}
BulletChars == {"*", "-", "+"}

\* The lines documents are built from: an empty line, a whitespace-only
\* line, paragraph text, a dash that is ordinary text, an ATX heading, a
\* bold-wrapped heading, a bullet and a numbered item.
LineSet ==
  { <<>>,
    <<" ">>,
    <<"a">>,
    <<"-", "z">>,
    <<"#", "h">>,
    <<"*", "*", "k", "*", "*">>,
    <<"-", " ", "x">>,
    <<"1", ".", " ", "y">> }

\* --------------------------------------------------------- string helpers

RECURSIVE lstrip(_)
lstrip(s) ==
  IF s # <<>> /\ Head(s) \in Whitespace THEN lstrip(Tail(s)) ELSE s

RECURSIVE rstrip(_)
rstrip(s) ==
  IF s # <<>> /\ s[Len(s)] \in Whitespace
  THEN rstrip(SubSeq(s, 1, Len(s) - 1))
  ELSE s

strip(s) == rstrip(lstrip(s))

startswith(s, p) == Len(s) >= Len(p) /\ SubSeq(s, 1, Len(p)) = p

endswith(s, p) ==
  Len(s) >= Len(p) /\ SubSeq(s, Len(s) - Len(p) + 1, Len(s)) = p

\* str.splitlines(): the text between line breaks, with no empty last line
\* after a final line break.
RECURSIVE splitlines_from(_, _, _)
splitlines_from(s, k, cur) ==
  IF k > Len(s)
  THEN (IF cur = <<>> THEN <<>> ELSE <<cur>>)
  ELSE IF s[k] = NL
       THEN <<cur>> \o splitlines_from(s, k + 1, <<>>)
       ELSE splitlines_from(s, k + 1, Append(cur, s[k]))

splitlines(s) == splitlines_from(s, 1, <<>>)

\* sep.join(parts)
RECURSIVE join(_, _)
join(sep, parts) ==
  IF parts = <<>> THEN <<>>
  ELSE IF Len(parts) = 1 THEN parts[1]
  ELSE parts[1] \o sep \o join(sep, Tail(parts))

\* re.match(r'^[\*\-\+]\s+', s)
match_bullet(s) ==
  Len(s) >= 2 /\ s[1] \in BulletChars /\ s[2] \in Whitespace

\* re.match(r'^\d+\.\s+', s)
match_numbered(s) ==
  \E n \in 1..Len(s) :
    /\ \A j \in 1..n : s[j] \in Digits
    /\ Len(s) >= n + 2
    /\ s[n + 1] = "."
    /\ s[n + 2] \in Whitespace

is_list_item(stripped) == match_bullet(stripped) \/ match_numbered(stripped)

is_heading(stripped) ==
  \/ startswith(stripped, <<"#">>)
  \/ (startswith(stripped, <<"*", "*">>) /\ endswith(stripped, <<"*", "*">>))

\* ----------------------------------------------------------------- parser
\* The parser's loop state is [i, current_block, blocks]; current_block is a
\* list of lines, blocks a list of strings.

ParseStart == [i |-> 1, current_block |-> <<>>, blocks |-> <<>>]

\* if current_block: blocks.append('\n'.join(current_block)); current_block = []
FlushCurrent(st) ==
  IF st.current_block # <<>>
  THEN [st EXCEPT !.blocks = Append(@, join(<<NL>>, st.current_block)),
                  !.current_block = <<>>]
  ELSE st

\* Empty line: end the current block.
StepBlank(lines, st) ==
  [FlushCurrent(st) EXCEPT !.i = st.i + 1]

\* A faulty variant: the heading is appended without closing the open
\* paragraph first.
StepHeading_NoFlush(lines, st) ==
  [st EXCEPT !.blocks = Append(@, lines[st.i]), !.i = st.i + 1]

\* Heading: saved as its own block.
StepHeading(lines, st) ==
  LET f == FlushCurrent(st)
  IN [f EXCEPT !.blocks = Append(@, lines[st.i]), !.i = st.i + 1]

\* A faulty variant: the look-ahead stops at blank lines and bullets only,
\* so a heading is taken as a continuation line.
RECURSIVE ContinuationEnd_IgnoresHeading(_, _)
ContinuationEnd_IgnoresHeading(lines, k) ==
  IF k > Len(lines) THEN k
  ELSE LET next_stripped == strip(lines[k])
       IN IF next_stripped = <<>> THEN k
          ELSE IF is_list_item(next_stripped) THEN k
          ELSE ContinuationEnd_IgnoresHeading(lines, k + 1)

\* The inner look-ahead loop: the index of the first line at or after k that
\* is blank, a bullet or a heading (or one past the last line).
RECURSIVE ContinuationEnd(_, _)
ContinuationEnd(lines, k) ==
  IF k > Len(lines) THEN k
  ELSE LET next_stripped == strip(lines[k])
       IN IF next_stripped = <<>> THEN k
          ELSE IF is_list_item(next_stripped) \/ is_heading(next_stripped) THEN k
          ELSE ContinuationEnd(lines, k + 1)

\* A faulty variant: the bullet line alone is the block; the lines after it
\* are parsed as ordinary lines.
StepListItem_NoContinuation(lines, st) ==
  LET f == FlushCurrent(st)
  IN [f EXCEPT !.blocks = Append(@, lines[st.i]), !.i = st.i + 1]

\* List item: the bullet and its continuation lines are one block.
StepListItem(lines, st) ==
  LET f == FlushCurrent(st)
      e == ContinuationEnd(lines, st.i + 1)
      bullet_lines == SubSeq(lines, st.i, e - 1)
  IN [f EXCEPT !.blocks = Append(@, join(<<NL>>, bullet_lines)), !.i = e]

\* Regular paragraph line.
StepParagraph(lines, st) ==
  [st EXCEPT !.current_block = Append(@, lines[st.i]), !.i = st.i + 1]

\* Which branch of the loop body line st.i takes.
LineBranch(line) ==
  LET stripped == strip(line)
  IN IF stripped = <<>> THEN "blank"
     ELSE IF is_heading(stripped) THEN "heading"
     ELSE IF is_list_item(stripped) THEN "list"
     ELSE "paragraph"

ParseStep(lines, st) ==
  LET b == LineBranch(lines[st.i])
  IN CASE b = "blank" -> StepBlank(lines, st)
       [] b = "heading" -> StepHeading(lines, st)
       [] b = "list" -> StepListItem(lines, st)
       [] OTHER -> StepParagraph(lines, st)

RECURSIVE ParseLoop(_, _)
ParseLoop(lines, st) ==
  IF st.i > Len(lines) THEN st ELSE ParseLoop(lines, ParseStep(lines, st))

\* A faulty variant: the open paragraph is forgotten at the end of input.
ParseReturn_NoFlush(st) == st.blocks

\* "Don't forget the last block": the flush after the loop appends the open
\* paragraph; current_block itself is left as it is.
ParseReturn(st) ==
  IF st.current_block # <<>>
  THEN Append(st.blocks, join(<<NL>>, st.current_block))
  ELSE st.blocks

parse_markdown_blocks(text) ==
  ParseReturn(ParseLoop(splitlines(text), ParseStart))

\* -------------------------------------------------------------- paginator

\* A faulty variant: blocks are joined by a single line break.
BlockSep_SingleBreak == <<NL>>

\* The separator of "\n\n".join(...)
BlockSep == <<NL, NL>>

\* A faulty variant: the block is measured on its own.
test_content_BlockAlone(acc, block) == block

\* test_content = "\n\n".join(accumulated + [block])
test_content(acc, block) == join(BlockSep, acc \o <<block>>)

\* A faulty variant: the overflowing block is in neither part.
ReturnOverflow_DropsBlock(acc, blks, k) ==
  [first_part |-> join(BlockSep, acc),
   rest_part |-> join(BlockSep, SubSeq(blks, k + 1, Len(blks)))]

\* A faulty variant: the overflowing block is committed to the first part.
ReturnOverflow_CommitsBlock(acc, blks, k) ==
  [first_part |-> join(BlockSep, Append(acc, blks[k])),
   rest_part |-> join(BlockSep, SubSeq(blks, k + 1, Len(blks)))]

\* The overflow return: the accumulator as it was before this block, and the
\* blocks from this one on.
ReturnOverflow(acc, blks, k) ==
  [first_part |-> join(BlockSep, acc),
   rest_part |-> join(BlockSep, SubSeq(blks, k, Len(blks)))]

\* A faulty variant: no fall-back to the first block when nothing was
\* accumulated.
ReturnError_NoFallback(acc, blks, k) ==
  [first_part |-> join(BlockSep, acc),
   rest_part |-> join(BlockSep, SubSeq(blks, k, Len(blks)))]

\* The except branch: stop at the accumulator, or fall back to the first
\* block when nothing was accumulated.
ReturnError(acc, blks, k) ==
  IF acc # <<>>
  THEN [first_part |-> join(BlockSep, acc),
        rest_part |-> join(BlockSep, SubSeq(blks, k, Len(blks)))]
  ELSE [first_part |-> blks[k],
        rest_part |-> join(BlockSep, SubSeq(blks, k + 1, Len(blks)))]

\* A faulty variant: the two parts are returned in the wrong order.
ReturnAllFits_Swapped(text) == [first_part |-> <<>>, rest_part |-> text]

\* "All content fits": the input text itself and an empty overflow.
ReturnAllFits(text) == [first_part |-> text, rest_part |-> <<>>]

\* A faulty variant: no height is over the budget.
Overflows_Never(height, max_height) == FALSE

\* A faulty variant: the comparison is the wrong way round.
Overflows_Inverted(height, max_height) == height < max_height

\* if height > max_height_inches
Overflows(height, max_height) == height > max_height

\* ------------------------------------------------------------------ state

VARIABLES
  content,            \* the Markdown text given to split_markdown_by_height
  max_height_inches,  \* the first-page budget of the current call
  pc,                 \* "parse", "split" or "done": where the call is
  i,                  \* parser: index of the next line
  current_block,      \* parser: lines of the open paragraph
  blocks,             \* parser: the blocks so far; then the paginator's blocks
  block_i,            \* paginator: index of the block being tried
  accumulated,        \* paginator: the committed blocks
  result,             \* the returned (first_part, rest_part)
  measured,           \* the backend's answers so far, by probed text
  probes,             \* the texts handed to measure_content_height, in order
  runs                \* earlier calls on this document: budget and blocks in first

\* extract_appendix: one call on one text.
VARIABLES
  markdown_content,   \* the text given to extract_appendix
  apx_pc,             \* "idle", "call" or "done"
  extracted           \* the returned (main_content, appendix_content, has_appendix)

\* generate_report.py run as a program: __main__ calling render_pdf.
VARIABLES
  parent,             \* who started the program: "shell" or "process_ticker"
  report_type,        \* --report-type
  ticker,             \* --ticker
  markdown_file,      \* --markdown: "None" or "given"
  output_file,        \* --output: "None" or "given"
  md_exists,          \* md_path.exists()
  ticker_dir_exists,  \* ticker_dir.exists()
  rp_pc,              \* where the run is
  meta,               \* the front matter of the document
  config_file,        \* what the ticker config file held when it was loaded
  ticker_config,      \* what load_ticker_config / load_update_config returned
  global_defaults,    \* the built-in defaults
  data,               \* the report configuration
  merged,             \* the report configuration as line 532 built it
  template_data,      \* the keyword arguments template.render received
  output_path,        \* where the PDF goes
  write_result,       \* "none", "ok" or "failed": what write_pdf did
  effects,            \* what the run has done so far, in order
  error,              \* the exception that left render_pdf, or ""
  returned,           \* the path render_pdf returned
  exit_status,        \* of the program: -1 while it runs
  pipeline            \* process_ticker: its exit status and whether it printed the summary

\* style_bold_headings: one call, made by load_markdown_with_front_matter.
VARIABLES
  html,               \* the HTML given to style_bold_headings, as tags and text
  part,               \* which half of the document it is: "first_html" or "rest_html"
  doc_type,           \* the report type the document is loaded for
  first_page,         \* the argument first_page
  make_first_red,     \* the argument make_first_red
  st_pc,              \* "idle", "call", "loop" or "done"
  matches,            \* list(re.finditer(pattern, html))
  st_i,               \* the loop counter i
  st_result           \* the local result; the returned text once st_pc = "done"

\* process_ticker.py run as a program.
VARIABLES
  pt_ticker,          \* the TICKER argument; upper-cased once main has started
  pt_report_type,     \* --report-type as given to process_ticker
  skip_conversion,    \* --skip-conversion
  skip_pdf,           \* --skip-pdf
  docx_exists,        \* docx_file.exists()
  markdown_exists,    \* markdown_file.exists()
  pt_config,          \* what the ticker config file holds when get_pdf_filename reads it
  pt_pc,              \* "idle", "args", "step1", "step2", "summary" or "exited"
  pdf_file,           \* the PDF path main computes and prints
  started,            \* the stages started so far, in order
  conv_status,        \* exit status of the docx_to_markdown child: -1 before it ends
  gen_status,         \* exit status of the generate_report child: -1 before it ends
  pt_exit,            \* exit status of process_ticker: -1 while it runs
  summary             \* what the summary printed: <<>> before it

\* measure_content_height: one call, after the backend has rendered the probe.
VARIABLES
  ms_doc,             \* the rendered PDF: its pages, each the text blocks on it
  ms_pc,              \* "idle", "opened" or "done"
  height_inches       \* the returned height

split_vars == <<content, max_height_inches, pc, i, current_block, blocks, block_i,
                accumulated, result, measured, probes, runs>>
appendix_vars == <<markdown_content, apx_pc, extracted>>
render_args == <<parent, report_type, ticker, markdown_file, output_file,
                 md_exists, ticker_dir_exists>>
render_vars == <<render_args, rp_pc, meta, config_file, ticker_config, global_defaults,
                 data, merged, template_data, output_path, write_result, effects,
                 error, returned, exit_status, pipeline>>

style_vars == <<html, part, doc_type, first_page, make_first_red, st_pc, matches,
                st_i, st_result>>
pt_args == <<pt_report_type, skip_conversion, skip_pdf, docx_exists, pt_config>>
pt_vars == <<pt_ticker, pt_args, markdown_exists, pt_pc, pdf_file, started, conv_status,
             gen_status, pt_exit, summary>>
measure_vars == <<ms_doc, ms_pc, height_inches>>
stage_vars == <<style_vars, pt_vars, measure_vars>>

\* What a call of split_markdown_by_height leaves alone.
outside_split == <<appendix_vars, render_vars, stage_vars>>
\* What a call of extract_appendix leaves alone.
outside_appendix == <<split_vars, render_vars, stage_vars>>

vars == <<split_vars, appendix_vars, render_vars, stage_vars>>

parser_vars == <<i, current_block, blocks>>
paginator_vars == <<block_i, accumulated, result, measured, probes>>

lines == splitlines(content)
parser_state == [i |-> i, current_block |-> current_block, blocks |-> blocks]

\* Documents of at most MaxLines lines over LineSet.
Documents ==
  { join(<<NL>>, ls) : ls \in UNION { [1..n -> LineSet] : n \in 0..MaxLines } }

Heights == 1..MaxHeight
\* The first-page budgets: below the largest height, so that a probe can
\* overflow under each.
Budgets == 1..(MaxHeight - 1)

\* What measure_content_height does on a probe: returns a height or raises.
MeasureOutcomes ==
  { [ok |-> TRUE, height |-> h] : h \in Heights } \cup { [ok |-> FALSE, height |-> 0] }

\* The backend is deterministic: a text probed before measures as it did.
OutcomesFor(text) ==
  IF text \in DOMAIN measured THEN { measured[text] } ELSE MeasureOutcomes

NoResult == [first_part |-> <<>>, rest_part |-> <<>>]

NoExtract == [main_content |-> <<>>, appendix_content |-> <<>>, has_appendix |-> FALSE]

\* extract_appendix is not called.
AppendixIdle ==
  /\ markdown_content = <<>>
  /\ apx_pc = "idle"
  /\ extracted = NoExtract

\* A Python dict is a function from its keys; {} is the function of no key.
EmptyDict == [k \in {} |-> k]

\* Python values: a type and, for a string, its characters.
Str(s) == [type |-> "str", v |-> s]
None == [type |-> "NoneType", v |-> <<>>]

\* What yaml.safe_load or a loader returned: a dict, or a value of another type.
Dict(d) == [type |-> "dict", items |-> d]

NoPath == [dir |-> "", name |-> <<>>]
NoFile == [kind |-> "unread", mapping |-> EmptyDict]
NotRun == [exit |-> -1, summary |-> FALSE]

\* style_bold_headings is not called.
StyleIdle ==
  /\ html = <<>>
  /\ part = "first_html"
  /\ doc_type = "Initiating"
  /\ first_page = FALSE
  /\ make_first_red = TRUE
  /\ st_pc = "idle"
  /\ matches = <<>>
  /\ st_i = 0
  /\ st_result = <<>>

\* process_ticker.py is not run.
PipelineIdle ==
  /\ pt_ticker = <<>>
  /\ pt_report_type = "Initiation"
  /\ skip_conversion = FALSE
  /\ skip_pdf = FALSE
  /\ docx_exists = FALSE
  /\ markdown_exists = FALSE
  /\ pt_config = NoFile
  /\ pt_pc = "idle"
  /\ pdf_file = NoPath
  /\ started = <<>>
  /\ conv_status = -1
  /\ gen_status = -1
  /\ pt_exit = -1
  /\ summary = <<>>

\* The number of inches in a number of points, as a fraction: points / 72.0
inches(points) == [num |-> points, den |-> 72]

\* measure_content_height is not called.
MeasureIdle ==
  /\ ms_doc = <<>>
  /\ ms_pc = "idle"
  /\ height_inches = inches(0)

StageIdle == StyleIdle /\ PipelineIdle /\ MeasureIdle

\* generate_report.py is not run.
RenderIdle ==
  /\ parent = "shell"
  /\ report_type = "Initiating"
  /\ ticker = <<>>
  /\ markdown_file = "None"
  /\ output_file = "None"
  /\ md_exists = FALSE
  /\ ticker_dir_exists = FALSE
  /\ rp_pc = "idle"
  /\ meta = EmptyDict
  /\ config_file = NoFile
  /\ ticker_config = Dict(EmptyDict)
  /\ global_defaults = EmptyDict
  /\ data = EmptyDict
  /\ merged = EmptyDict
  /\ template_data = EmptyDict
  /\ output_path = NoPath
  /\ write_result = "none"
  /\ effects = <<>>
  /\ error = ""
  /\ returned = NoPath
  /\ exit_status = -1
  /\ pipeline = NotRun

Init ==
  /\ AppendixIdle
  /\ RenderIdle
  /\ StageIdle
  /\ content \in Documents
  /\ max_height_inches \in Budgets
  /\ pc = "parse"
  /\ i = ParseStart.i
  /\ current_block = ParseStart.current_block
  /\ blocks = ParseStart.blocks
  /\ block_i = 1
  /\ accumulated = <<>>
  /\ result = NoResult
  /\ measured = [t \in {} |-> t]
  /\ probes = <<>>
  /\ runs = {}

\* ---------------------------------------------------------- parser actions

ParseAdvance(branch, next) ==
  /\ pc = "parse"
  /\ i <= Len(lines)
  /\ LineBranch(lines[i]) = branch
  /\ i' = next.i
  /\ current_block' = next.current_block
  /\ blocks' = next.blocks
  /\ UNCHANGED <<content, max_height_inches, pc, paginator_vars, runs>>
  /\ UNCHANGED outside_split

ParseBlank == ParseAdvance("blank", StepBlank(lines, parser_state))

ParseHeading == ParseAdvance("heading", StepHeading(lines, parser_state))

ParseListItem == ParseAdvance("list", StepListItem(lines, parser_state))

ParseParagraph == ParseAdvance("paragraph", StepParagraph(lines, parser_state))

\* The loop is over: flush the open paragraph and hand the blocks to the
\* paginator's loop.
ParseEnd ==
  /\ pc = "parse"
  /\ i > Len(lines)
  /\ blocks' = ParseReturn(parser_state)
  /\ pc' = "split"
  /\ UNCHANGED <<content, max_height_inches, i, current_block, paginator_vars, runs>>
  /\ UNCHANGED outside_split

\* ------------------------------------------------------- paginator actions

Probe == test_content(accumulated, blocks[block_i])

Return(r) ==
  /\ result' = r
  /\ pc' = "done"

\* A faulty variant: the error of the probe leaves the function.
ReturnFromExcept_Propagates(r) ==
  /\ result' = NoResult
  /\ pc' = "raised"

\* Lines 223-232: "except Exception" takes the error of the probe, and both
\* of its branches return.
ReturnFromExcept(r) == Return(r)

\* The probe measures within the budget: commit the block.
ProbeFits ==
  /\ pc = "split"
  /\ block_i <= Len(blocks)
  /\ \E o \in OutcomesFor(Probe) :
       /\ o.ok
       /\ ~Overflows(o.height, max_height_inches)
       /\ measured' = (Probe :> o) @@ measured
  /\ probes' = Append(probes, Probe)
  /\ accumulated' = Append(accumulated, blocks[block_i])
  /\ block_i' = block_i + 1
  /\ UNCHANGED <<content, max_height_inches, pc, parser_vars, result, runs>>
  /\ UNCHANGED outside_split

\* The probe measures more than the budget: return without the block.
ProbeOverflows ==
  /\ pc = "split"
  /\ block_i <= Len(blocks)
  /\ \E o \in OutcomesFor(Probe) :
       /\ o.ok
       /\ Overflows(o.height, max_height_inches)
       /\ measured' = (Probe :> o) @@ measured
  /\ probes' = Append(probes, Probe)
  /\ Return(ReturnOverflow(accumulated, blocks, block_i))
  /\ UNCHANGED <<content, max_height_inches, parser_vars, block_i, accumulated, runs>>
  /\ UNCHANGED outside_split

\* The probe raises: the except branch returns.
ProbeFails ==
  /\ pc = "split"
  /\ block_i <= Len(blocks)
  /\ \E o \in OutcomesFor(Probe) :
       /\ ~o.ok
       /\ measured' = (Probe :> o) @@ measured
  /\ probes' = Append(probes, Probe)
  /\ ReturnFromExcept(ReturnError(accumulated, blocks, block_i))
  /\ UNCHANGED <<content, max_height_inches, parser_vars, block_i, accumulated, runs>>
  /\ UNCHANGED outside_split

\* Every block was committed.
AllFits ==
  /\ pc = "split"
  /\ block_i > Len(blocks)
  /\ Return(ReturnAllFits(content))
  /\ UNCHANGED <<content, max_height_inches, parser_vars, block_i, accumulated,
                 measured, probes, runs>>
  /\ UNCHANGED outside_split

\* The same document is split a second time, with a larger budget; the
\* backend's earlier answers stand. The call parses the text again (one
\* step here) and enters the loop.
CallAgain ==
  /\ pc = "done"
  /\ runs = {}
  /\ \E h \in Budgets :
       /\ h > max_height_inches
       /\ max_height_inches' = h
  /\ runs' = { [max_height |-> max_height_inches,
                n_first |-> Len(parse_markdown_blocks(result.first_part))] }
  /\ LET st == ParseLoop(lines, ParseStart)
     IN /\ i' = st.i
        /\ current_block' = st.current_block
        /\ blocks' = ParseReturn(st)
  /\ pc' = "split"
  /\ block_i' = 1
  /\ accumulated' = <<>>
  /\ result' = NoResult
  /\ probes' = <<>>
  /\ UNCHANGED <<content, measured>>
  /\ UNCHANGED outside_split

Next ==
  \/ ParseBlank
  \/ ParseHeading
  \/ ParseListItem
  \/ ParseParagraph
  \/ ParseEnd
  \/ ProbeFits
  \/ ProbeOverflows
  \/ ProbeFails
  \/ AllFits

\* One call of split_markdown_by_height on a document.
Spec == Init /\ [][Next]_vars

NextParse ==
  \/ ParseBlank
  \/ ParseHeading
  \/ ParseListItem
  \/ ParseParagraph
  \/ ParseEnd

\* The call up to the return of parse_markdown_blocks.
SpecParse == Init /\ [][NextParse]_vars

NextTwoCalls ==
  \/ Next
  \/ CallAgain

\* Two calls on the same document, the second with a larger budget.
SpecTwoCalls == Init /\ [][NextTwoCalls]_vars

\* ------------------------------------------------- vocabulary of the claims

Done == pc = "done"

\* The blocks of the two returned texts.
FirstBlocks == parse_markdown_blocks(result.first_part)
RestBlocks == parse_markdown_blocks(result.rest_part)

\* The text probed for block k: blocks 1..k rendered together.
PrefixText(k) == join(BlockSep, SubSeq(blocks, 1, k))

Probed(k) == PrefixText(k) \in DOMAIN measured
ProbeFailed(k) == Probed(k) /\ ~measured[PrefixText(k)].ok
ProbeFitted(k) ==
  /\ Probed(k)
  /\ measured[PrefixText(k)].ok
  /\ measured[PrefixText(k)].height <= max_height_inches
ProbeOverflowed(k) ==
  /\ Probed(k)
  /\ measured[PrefixText(k)].ok
  /\ measured[PrefixText(k)].height > max_height_inches

\* A line with nothing but whitespace.
IsBlankLine(l) == \A j \in 1..Len(l) : l[j] \in Whitespace
NonBlankLine(l) == ~IsBlankLine(l)
IsHeadingLine(l) == is_heading(strip(l))
IsListItemLine(l) == is_list_item(strip(l))

\* The pieces of a text between its line breaks, empty pieces included.
RECURSIVE PiecesFrom(_, _, _)
PiecesFrom(s, k, cur) ==
  IF k > Len(s) THEN <<cur>>
  ELSE IF s[k] = NL THEN <<cur>> \o PiecesFrom(s, k + 1, <<>>)
  ELSE PiecesFrom(s, k + 1, Append(cur, s[k]))

Pieces(s) == PiecesFrom(s, 1, <<>>)

\* The lines of a block sequence, block after block.
RECURSIVE BlockLines(_)
BlockLines(blks) ==
  IF blks = <<>> THEN <<>> ELSE Pieces(Head(blks)) \o BlockLines(Tail(blks))

\* ----------------------------------------------------------------- claims

\* C1 (split completeness): when the call returns, the blocks of first_part
\* followed by the blocks of rest_part are exactly the parser's blocks: same
\* order, none duplicated, none dropped, none divided.
C1_SplitCompleteness ==
  Done => FirstBlocks \o RestBlocks = blocks

\* A return after a failed probe with blocks on both sides of the split.
C1_Witness ==
  /\ Done
  /\ FirstBlocks # <<>>
  /\ RestBlocks # <<>>
  /\ \E k \in 1..Len(blocks) : ProbeFailed(k)

\* C2 (non-empty first), as claimed: a non-empty block sequence never gives
\* an empty first part.
C2_NonEmptyFirst ==
  (Done /\ blocks # <<>>) => FirstBlocks # <<>>

\* C3 (oversized first block), as claimed: when the first block alone
\* measures more than the budget, first is that block and rest the others.
C3_OversizedFirstBlock ==
  (Done /\ blocks # <<>> /\ ProbeOverflowed(1)) =>
    /\ FirstBlocks = <<blocks[1]>>
    /\ RestBlocks = Tail(blocks)

\* C4 (overflow split point): when no probe fails and block k > 1 is the
\* first whose cumulative probe measures more than the budget, first is
\* blocks 1..k-1 and rest is blocks k..end.
C4_OverflowSplitPoint ==
  Done =>
    \A k \in 2..Len(blocks) :
      (/\ \A j \in 1..(k - 1) : ProbeFitted(j)
       /\ ProbeOverflowed(k)) =>
        /\ FirstBlocks = SubSeq(blocks, 1, k - 1)
        /\ RestBlocks = SubSeq(blocks, k, Len(blocks))

\* An overflow at the last of three blocks.
C4_Witness ==
  /\ Done
  /\ Len(blocks) = 3
  /\ ProbeFitted(1)
  /\ ProbeFitted(2)
  /\ ProbeOverflowed(3)

\* C5 (measurement failure), as claimed: a failed probe for block k leaves
\* first = the blocks before k and rest = block k and the blocks after it.
C5_FailureStopsBeforeBlock ==
  Done =>
    \A k \in 1..Len(blocks) :
      ProbeFailed(k) =>
        /\ FirstBlocks = SubSeq(blocks, 1, k - 1)
        /\ RestBlocks = SubSeq(blocks, k, Len(blocks))

\* C5, amended: that holds when a block was committed before the failure
\* (k > 1); when the very first probe fails, first is the first block alone
\* and rest the blocks after it.
C5_FailureStop ==
  Done =>
    \A k \in 1..Len(blocks) :
      ProbeFailed(k) =>
        IF k > 1
        THEN /\ FirstBlocks = SubSeq(blocks, 1, k - 1)
             /\ RestBlocks = SubSeq(blocks, k, Len(blocks))
        ELSE /\ FirstBlocks = <<blocks[1]>>
             /\ RestBlocks = Tail(blocks)

\* A failure at the third block, after two were committed.
C5_Witness ==
  /\ Done
  /\ Len(blocks) = 3
  /\ ProbeFailed(3)
  /\ Len(FirstBlocks) = 2

\* C6 (all content fits): when every cumulative probe succeeds within the
\* budget, first is the whole block sequence and the overflow is empty.
C6_AllContentFits ==
  (Done /\ \A k \in 1..Len(blocks) : ProbeFitted(k)) =>
    /\ FirstBlocks = blocks
    /\ result.rest_part = <<>>

\* A document of three blocks that all fit.
C6_Witness ==
  /\ Done
  /\ Len(blocks) = 3
  /\ \A k \in 1..3 : ProbeFitted(k)
  /\ result.rest_part = <<>>

\* C7 (split monotonicity): a second call on the same document, with the
\* same backend answers and a budget at least as large, places at least as
\* many blocks in first as the earlier call did.
C7_SplitMonotonicity ==
  \A r \in runs :
    (Done /\ r.max_height <= max_height_inches) =>
      r.n_first <= Len(FirstBlocks)

\* A second call that placed strictly more blocks in first.
C7_Witness ==
  /\ Done
  /\ \E r \in runs :
       /\ r.max_height < max_height_inches
       /\ r.n_first >= 1
       /\ r.n_first < Len(FirstBlocks)

\* C8 (block coverage): the lines of the blocks, read in order, are exactly
\* the non-blank lines of the text in document order.
C8_BlockCoverage ==
  pc # "parse" => BlockLines(blocks) = SelectSeq(lines, NonBlankLine)

\* A document with a blank line that parsed into a block of two lines.
C8_Witness ==
  /\ pc # "parse"
  /\ \E n \in 1..Len(lines) : IsBlankLine(lines[n])
  /\ \E n \in 1..Len(blocks) : Len(Pieces(blocks[n])) = 2

\* C9 (no empty block, last block flushed): no block is empty or holds a
\* blank line, and the paragraph open when the input ends is the last block.
C9_NoEmptyBlockAndFlush ==
  /\ \A n \in 1..Len(blocks) :
       LET ps == Pieces(blocks[n])
       IN \A m \in 1..Len(ps) : NonBlankLine(ps[m])
  /\ (pc # "parse" /\ current_block # <<>>) =>
       /\ blocks # <<>>
       /\ blocks[Len(blocks)] = join(<<NL>>, current_block)

\* The input ended inside a paragraph that follows another block.
C9_Witness ==
  /\ pc # "parse"
  /\ current_block # <<>>
  /\ Len(blocks) >= 2

\* C10 (headings stand alone): every heading line of the text is a block of
\* its own, in order, and no block of more than one line holds a heading.
C10_HeadingOwnBlock ==
  pc # "parse" =>
    /\ \A n \in 1..Len(blocks) :
         LET ps == Pieces(blocks[n])
         IN (\E m \in 1..Len(ps) : IsHeadingLine(ps[m])) => Len(ps) = 1
    /\ SelectSeq(blocks, IsHeadingLine) = SelectSeq(lines, IsHeadingLine)

\* A heading right after a list item and right before paragraph text.
C10_Witness ==
  /\ pc # "parse"
  /\ Len(lines) = 3
  /\ IsListItemLine(lines[1])
  /\ IsHeadingLine(lines[2])
  /\ NonBlankLine(lines[3]) /\ ~IsHeadingLine(lines[3]) /\ ~IsListItemLine(lines[3])
  /\ Len(blocks) = 3

\* A line that ends the run of continuation lines of a list item.
EndsListRun(l) == IsBlankLine(l) \/ IsHeadingLine(l) \/ IsListItemLine(l)

\* One past the maximal run of continuation lines after the list item at p.
ListRunEnd(p) ==
  CHOOSE e \in (p + 1)..(Len(lines) + 1) :
    /\ \A j \in (p + 1)..(e - 1) : ~EndsListRun(lines[j])
    /\ (e = Len(lines) + 1 \/ EndsListRun(lines[e]))

\* For each list-item line from p on, in order: the item with its run.
RECURSIVE ListBlocksFrom(_)
ListBlocksFrom(p) ==
  IF p > Len(lines) THEN <<>>
  ELSE IF IsListItemLine(lines[p])
       THEN <<join(<<NL>>, SubSeq(lines, p, ListRunEnd(p) - 1))>> \o ListBlocksFrom(p + 1)
       ELSE ListBlocksFrom(p + 1)

StartsWithListItem(b) == IsListItemLine(Pieces(b)[1])

\* C11 (list-item atomicity): the blocks that start with a list-item line
\* are, in order, each list-item line of the text followed by exactly its
\* maximal run of non-blank, non-heading, non-list-item lines; a list-item
\* line is never anywhere but first in its block.
C11_ListItemAtomicity ==
  pc # "parse" =>
    /\ SelectSeq(blocks, StartsWithListItem) = ListBlocksFrom(1)
    /\ \A n \in 1..Len(blocks) :
         LET ps == Pieces(blocks[n])
         IN \A m \in 2..Len(ps) : ~IsListItemLine(ps[m])

\* A list item with a continuation line, followed by another list item.
C11_Witness ==
  /\ pc # "parse"
  /\ Len(lines) = 3
  /\ IsListItemLine(lines[1])
  /\ ~EndsListRun(lines[2])
  /\ IsListItemLine(lines[3])
  /\ Len(blocks) = 2
  /\ Len(Pieces(blocks[1])) = 2

\* ------------------------------------------------------- extract_appendix

MaxSegments == 4

\* The pattern <!--\s*APPENDIX\s*-->, in its three parts.
CommentOpen == <<"<", "!", "-", "-">>
MarkerWord == <<"A", "P", "P", "E", "N", "D", "I", "X">>
CommentClose == <<"-", "-", ">">>

\* re.IGNORECASE: letters compare by their lower case.
lower(c) ==
  CASE c = "A" -> "a"
    [] c = "P" -> "p"
    [] c = "E" -> "e"
    [] c = "N" -> "n"
    [] c = "D" -> "d"
    [] c = "I" -> "i"
    [] c = "X" -> "x"
    [] OTHER -> c

casefold(s) == [j \in 1..Len(s) |-> lower(s[j])]

\* The literal lit, case-insensitively, at position p of text.
literal_at(text, p, lit) ==
  /\ p + Len(lit) - 1 <= Len(text)
  /\ casefold(SubSeq(text, p, p + Len(lit) - 1)) = casefold(lit)

\* \s*: the first position from p on that holds no whitespace.
RECURSIVE skip_whitespace(_, _)
skip_whitespace(text, p) ==
  IF p <= Len(text) /\ text[p] \in Whitespace
  THEN skip_whitespace(text, p + 1)
  ELSE p

\* The pattern matched at position p: the position after the match, or 0.
match_marker_at(text, p) ==
  IF ~literal_at(text, p, CommentOpen) THEN 0
  ELSE LET w == skip_whitespace(text, p + Len(CommentOpen))
       IN IF ~literal_at(text, w, MarkerWord) THEN 0
          ELSE LET c == skip_whitespace(text, w + Len(MarkerWord))
               IN IF ~literal_at(text, c, CommentClose) THEN 0
                  ELSE c + Len(CommentClose)

match_positions(text) ==
  { p \in { q \in 1..Len(text) : text[q] = Head(CommentOpen) } : match_marker_at(text, p) # 0 }

Min(S) == CHOOSE x \in S : \A y \in S : x <= y
Max(S) == CHOOSE x \in S : \A y \in S : x >= y

split_at(text, p) ==
  <<SubSeq(text, 1, p - 1), SubSeq(text, match_marker_at(text, p), Len(text))>>

re_split_AtLastMatch(text) ==
  LET found == match_positions(text)
  IN IF found = {} THEN <<text>> ELSE split_at(text, Max(found))

\* re.split(appendix_marker, markdown_content, maxsplit=1, flags=re.IGNORECASE)
re_split(text) ==
  LET found == match_positions(text)
  IN IF found = {} THEN <<text>> ELSE split_at(text, Min(found))

ReturnUnmarked_Stripped(text) ==
  [main_content |-> strip(text), appendix_content |-> <<>>, has_appendix |-> FALSE]

\* No marker: all content is main content.
ReturnUnmarked(text) ==
  [main_content |-> text, appendix_content |-> <<>>, has_appendix |-> FALSE]

ReturnMarked_NoStrip(parts) ==
  [main_content |-> parts[1], appendix_content |-> parts[2], has_appendix |-> TRUE]

\* A marker: the first part is the main content, the second the appendix.
ReturnMarked(parts) ==
  [main_content |-> strip(parts[1]),
   appendix_content |-> strip(parts[2]),
   has_appendix |-> TRUE]

extract_appendix(text) ==
  LET parts == re_split(text)
  IN IF Len(parts) < 2 THEN ReturnUnmarked(text) ELSE ReturnMarked(parts)

\* Pieces of text the documents are made of: plain text, whitespace, markers
\* in three spellings, and the two halves of a marker.
SegmentSet ==
  { <<"a">>,
    <<" ">>,
    <<NL>>,
    CommentOpen \o <<" ">> \o MarkerWord \o <<" ">> \o CommentClose,
    CommentOpen \o <<NL, "A", "p", "p", "e", "n", "d", "i", "x">> \o CommentClose,
    CommentOpen \o casefold(MarkerWord),
    CommentClose }

Texts ==
  { join(<<>>, ss) : ss \in UNION { [1..n -> SegmentSet] : n \in 0..MaxSegments } }

\* split_markdown_by_height is not called.
SplitIdle ==
  /\ content = <<>>
  /\ max_height_inches = 1
  /\ pc = "idle"
  /\ i = ParseStart.i
  /\ current_block = ParseStart.current_block
  /\ blocks = ParseStart.blocks
  /\ block_i = 1
  /\ accumulated = <<>>
  /\ result = NoResult
  /\ measured = [t \in {} |-> t]
  /\ probes = <<>>
  /\ runs = {}

InitAppendix ==
  /\ SplitIdle
  /\ RenderIdle
  /\ StageIdle
  /\ markdown_content \in Texts
  /\ apx_pc = "call"
  /\ extracted = NoExtract

\* len(parts) < 2
ExtractUnmarked ==
  /\ apx_pc = "call"
  /\ Len(re_split(markdown_content)) < 2
  /\ extracted' = extract_appendix(markdown_content)
  /\ apx_pc' = "done"
  /\ UNCHANGED <<outside_appendix, markdown_content>>

ExtractMarked ==
  /\ apx_pc = "call"
  /\ Len(re_split(markdown_content)) >= 2
  /\ extracted' = extract_appendix(markdown_content)
  /\ apx_pc' = "done"
  /\ UNCHANGED <<outside_appendix, markdown_content>>

NextAppendix ==
  \/ ExtractUnmarked
  \/ ExtractMarked

\* One call of extract_appendix on a text.
SpecAppendix == InitAppendix /\ [][NextAppendix]_vars

\* -------------------------------------------------- appendix: vocabulary

Extracted == apx_pc = "done"

\* s is one whole marker: the comment opening, the word APPENDIX in any case
\* with any whitespace around it, the comment closing.
IsMarker(s) ==
  /\ Len(s) >= Len(CommentOpen) + Len(CommentClose)
  /\ SubSeq(s, 1, Len(CommentOpen)) = CommentOpen
  /\ SubSeq(s, Len(s) - Len(CommentClose) + 1, Len(s)) = CommentClose
  /\ casefold(strip(SubSeq(s, Len(CommentOpen) + 1, Len(s) - Len(CommentClose))))
       = casefold(MarkerWord)

\* The markers of text, as pairs of first and last position.
MarkersOf(text) ==
  { m \in { a \in 1..Len(text) : text[a] = "<" } \X { b \in 1..Len(text) : text[b] = ">" } :
      /\ m[1] < m[2]
      /\ IsMarker(SubSeq(text, m[1], m[2])) }

ContainsMarker(text) == MarkersOf(text) # {}

FirstMarker(text) ==
  LET ms == MarkersOf(text)
  IN CHOOSE m \in ms : \A o \in ms : m[1] <= o[1]

BeforeMarker(text, m) == SubSeq(text, 1, m[1] - 1)
AfterMarker(text, m) == SubSeq(text, m[2] + 1, Len(text))

\* C12 (appendix split): a text that contains the marker is split at its
\* first marker: main is the text strictly before it, stripped, the appendix
\* the text strictly after it, stripped, and has_appendix is true; whenever
\* the text reads main + MARKER + appendix with no marker in main or in
\* appendix, the result is (main.strip(), appendix.strip(), true) and the
\* marker is in neither part.
C12_AppendixSplit ==
  (Extracted /\ ContainsMarker(markdown_content)) =>
    LET text == markdown_content
        first == FirstMarker(text)
    IN /\ extracted = [main_content |-> strip(BeforeMarker(text, first)),
                       appendix_content |-> strip(AfterMarker(text, first)),
                       has_appendix |-> TRUE]
       /\ \A m \in MarkersOf(text) :
            (/\ ~ContainsMarker(BeforeMarker(text, m))
             /\ ~ContainsMarker(AfterMarker(text, m)))
            => /\ extracted.main_content = strip(BeforeMarker(text, m))
               /\ extracted.appendix_content = strip(AfterMarker(text, m))
               /\ extracted.has_appendix
               /\ ~ContainsMarker(extracted.main_content)
               /\ ~ContainsMarker(extracted.appendix_content)

\* A marked text with whitespace to strip on both sides of both parts.
C12_Witness ==
  /\ Extracted
  /\ Cardinality(MarkersOf(markdown_content)) = 1
  /\ LET m == FirstMarker(markdown_content)
     IN /\ strip(BeforeMarker(markdown_content, m)) # BeforeMarker(markdown_content, m)
        /\ extracted.main_content # <<>>
        /\ extracted.appendix_content # <<>>

\* C13 (no-marker identity): a text without the marker is returned
\* unchanged, leading and trailing whitespace included, with an empty
\* appendix and has_appendix false.
C13_NoMarkerIdentity ==
  (Extracted /\ ~ContainsMarker(markdown_content)) =>
    /\ extracted.main_content = markdown_content
    /\ extracted.appendix_content = <<>>
    /\ extracted.has_appendix = FALSE

\* An unmarked text that stripping would change, holding half a marker.
C13_Witness ==
  /\ Extracted
  /\ ~ContainsMarker(markdown_content)
  /\ strip(markdown_content) # markdown_content
  /\ \E p \in 1..Len(markdown_content) : literal_at(markdown_content, p, CommentOpen)
  /\ extracted.main_content = markdown_content

\* C14 (multiple markers): with two or more markers only the first splits
\* the text: main is the text before the first marker, and every later
\* marker stands verbatim in the appendix; the call returns.
C14_FirstMarkerOnly ==
  (Extracted /\ Cardinality(MarkersOf(markdown_content)) >= 2) =>
    LET text == markdown_content
        first == FirstMarker(text)
        rest == AfterMarker(text, first)
    IN /\ extracted.has_appendix
       /\ extracted.main_content = strip(BeforeMarker(text, first))
       /\ extracted.appendix_content = strip(rest)
       /\ \A m \in MarkersOf(text) \ {first} :
            \E a \in MarkersOf(extracted.appendix_content) :
              /\ SubSeq(extracted.appendix_content, a[1], a[2]) = SubSeq(text, m[1], m[2])
              /\ Len(extracted.appendix_content) - a[2] =
                   Len(rstrip(AfterMarker(text, m)))

\* Two markers of different spelling with text between and around them.
C14_Witness ==
  /\ Extracted
  /\ Cardinality(MarkersOf(markdown_content)) = 2
  /\ extracted.main_content # <<>>
  /\ Cardinality(MarkersOf(extracted.appendix_content)) = 1
  /\ LET a == FirstMarker(extracted.appendix_content)
     IN a[1] > 1

\* ------------------------------------------------------------ render_pdf

MaxKeys == 3

\* str.replace(old, new) for a one-character old.
RECURSIVE replace(_, _, _)
replace(s, old, new) ==
  IF s = <<>> THEN <<>>
  ELSE (IF Head(s) = old THEN new ELSE <<Head(s)>>) \o replace(Tail(s), old, new)

\* str.split(sep)[0]: the text before the first sep, or all of it.
RECURSIVE split_first(_, _)
split_first(s, sep) ==
  IF s = <<>> \/ Head(s) = sep THEN <<>>
  ELSE <<Head(s)>> \o split_first(Tail(s), sep)

upper_char(c) ==
  CASE c = "a" -> "A"
    [] c = "b" -> "B"
    [] c = "f" -> "F"
    [] c = "p" -> "P"
    [] c = "u" -> "U"
    [] c = "z" -> "Z"
    [] OTHER -> c

\* str.upper()
upper(s) == [j \in 1..Len(s) |-> upper_char(s[j])]

\* What an f-string makes of a value.
format_value(val) ==
  IF val.type = "NoneType" THEN <<"N", "o", "n", "e">> ELSE val.v

\* dict.get(key, default)
dict_get(d, key, default) == IF key \in DOMAIN d THEN d[key] ELSE default

\* Periods become slashes in a non-empty string; anything else is returned
\* as it is.
format_table_date(date_str) ==
  IF date_str.type = "str" /\ date_str.v # <<>>
  THEN Str(replace(date_str.v, ".", <<"/">>))
  ELSE date_str

format_config_EveryValue(d) == [k \in DOMAIN d |-> format_table_date(d[k])]

\* Lines 535-536: table_date, when present, is formatted in place.
format_config(d) ==
  IF "table_date" \in DOMAIN d
  THEN [d EXCEPT !["table_date"] = format_table_date(@)]
  ELSE d

\* What the config file can hold.
FileKinds == {"missing", "unreadable", "invalid", "empty", "mapping", "sequence", "scalar"}

\* load_ticker_config: {} when the file is missing, cannot be read, does not
\* parse or is empty; otherwise whatever yaml.safe_load returned.
load_ticker_config(file) ==
  CASE file.kind = "missing" -> Dict(EmptyDict)
    [] file.kind = "unreadable" -> Dict(EmptyDict)
    [] file.kind = "invalid" -> Dict(EmptyDict)
    [] file.kind = "empty" -> Dict(EmptyDict)
    [] file.kind = "mapping" -> Dict(file.mapping)
    [] file.kind = "sequence" -> [type |-> "list", items |-> EmptyDict]
    [] file.kind = "scalar" -> [type |-> "str", items |-> EmptyDict]

\* load_update_config: the same, on the update config file.
load_update_config(file) ==
  CASE file.kind = "missing" -> Dict(EmptyDict)
    [] file.kind = "unreadable" -> Dict(EmptyDict)
    [] file.kind = "invalid" -> Dict(EmptyDict)
    [] file.kind = "empty" -> Dict(EmptyDict)
    [] file.kind = "mapping" -> Dict(file.mapping)
    [] file.kind = "sequence" -> [type |-> "list", items |-> EmptyDict]
    [] file.kind = "scalar" -> [type |-> "str", items |-> EmptyDict]

\* Lines 503-507.
load_config(rtype, dir_exists, file) ==
  IF ~dir_exists THEN Dict(EmptyDict)
  ELSE IF rtype = "Update" THEN load_update_config(file)
  ELSE load_ticker_config(file)

\* global_defaults, lines 521-529; chart_img is None without a chart file.
Defaults(chart_exists) ==
  [logo_img |-> Str(<<"l">>),
   symbol_logo |-> Str(<<"s">>),
   font_regular |-> Str(<<"r">>),
   font_bold |-> Str(<<"b">>),
   chart_img |-> IF chart_exists THEN Str(<<"c">>) ELSE None]

merge_config_DefaultsFirst(defaults, config, front) == defaults @@ config @@ front

\* {**global_defaults, **ticker_config, **meta}: later layers win.
merge_config(defaults, config, front) == front @@ config @@ defaults

\* ** of a value that is not a mapping raises TypeError.
merge_raises(config) == config.type # "dict"

source_missing_Ignored(exists) == FALSE

\* if not md_path.exists()
source_missing(exists) == ~exists

\* Lines 567 and 572-576: .replace and .split are called on the values.
name_raises(rtype, tick, d) ==
  \/ dict_get(d, "date", Str(<<>>)).type # "str"
  \/ rtype # "Update" /\ dict_get(d, "ticker", Str(tick)).type # "str"

IssueWord == <<"I", "s", "s", "u", "e">>
UpdateWord == <<"U", "p", "d", "a", "t", "e">>
DotPdf == <<".", "p", "d", "f">>
DefaultNumber == Str(<<"0", "0">>)
DefaultDate == Str(<<"M", "M", "D", "D", "Y", "Y", "Y", "Y">>)

auto_filename_TickerArgument(rtype, tick, d) ==
  upper(split_first(tick, ":")) \o <<".">> \o IssueWord
    \o format_value(dict_get(d, "issue_number", DefaultNumber))
    \o <<".">> \o replace(dict_get(d, "date", DefaultDate).v, ".", <<>>) \o DotPdf

\* The file name when no output file is given, lines 564-577.
auto_filename(rtype, tick, d) ==
  LET date_str == replace(dict_get(d, "date", DefaultDate).v, ".", <<>>)
  IN IF rtype = "Update"
     THEN format_value(dict_get(d, "ticker", Str(tick))) \o <<".">> \o IssueWord
            \o format_value(dict_get(d, "issue_number", DefaultNumber))
            \o <<".">> \o UpdateWord
            \o format_value(dict_get(d, "update_number", DefaultNumber))
            \o <<".">> \o date_str \o DotPdf
     ELSE LET ticker_symbol == upper(split_first(dict_get(d, "ticker", Str(tick)).v, ":"))
              issue_str == IssueWord \o format_value(dict_get(d, "issue_number", DefaultNumber))
          IN ticker_symbol \o <<".">> \o issue_str \o <<".">> \o date_str \o DotPdf

\* Lines 563-581.
choose_output_path(out, rtype, tick, d) ==
  IF out = "None"
  THEN [dir |-> "ticker_dir", name |-> auto_filename(rtype, tick, d)]
  ELSE [dir |-> "project_root", name |-> <<"o", ".", "p", "d", "f">>]

after_write_Swallowed(ok) == "report"

\* write_pdf returns, or its exception leaves render_pdf.
after_write(ok) == IF ok THEN "report" ELSE "raised"

\* argparse: choices=['Initiating', 'Update']
ReportTypeChoices == {"Initiating", "Update"}
\* click.Choice(['Initiation', 'Updates'])
PipelineReportTypes == {"Initiation", "Updates"}

\* The exit status of a Python program: 0 when __main__ ran to its end, 1
\* when an exception left it.
status_of(outcome) == IF outcome = "returned" THEN 0 ELSE 1

\* A faulty variant: every command counts as a success.
run_command_AlwaysTrue(status) == TRUE

\* run_command: True exactly when the child exited with status 0.
run_command(status) == status = 0

\* Lines 149-162 of process_ticker: exit 1 when the command failed; the
\* summary otherwise.
after_generate(status) ==
  IF ~run_command(status)
  THEN [exit |-> 1, summary |-> FALSE]
  ELSE [exit |-> 0, summary |-> TRUE]

\* The mappings that give some of the keys of choices one of its values.
Mappings(choices) ==
  UNION { { f \in [K -> UNION { choices[k] : k \in K }] : \A k \in K : f[k] \in choices[k] }
          : K \in SUBSET DOMAIN choices }

\* Ticker config files: a logo, a ticker, a table date, an issue number.
ConfigMappings ==
  Mappings([logo_img |-> {Str(<<"P">>)},
            ticker |-> {Str(<<"p", ":", "u">>)},
            table_date |-> {Str(<<"1", ".", "2">>)},
            issue_number |-> {Str(<<"7">>)}])

\* Front matters: a logo, a ticker, a date, a table date, an update number;
\* the dates may be left empty in the document (None).
FrontMatters ==
  Mappings([logo_img |-> {Str(<<"F">>)},
            ticker |-> {Str(<<"p", ":", "u">>), Str(<<"f", ".", "a">>)},
            date |-> {Str(<<"3", ".", "4">>), None},
            table_date |-> {Str(<<"5", ".", "6", ".", "7">>), None},
            update_number |-> {Str(<<"2">>)}])

Tickers == { <<"a", "z">>, <<"b", ":", "u">> }

Size(d) == Cardinality(DOMAIN d)

\* The files the loader can meet, given the document's front matter: a
\* document and its config set at most MaxKeys keys between them.
ConfigFiles(front) ==
  { [kind |-> k, mapping |-> EmptyDict] : k \in FileKinds \ {"mapping"} }
    \cup { [kind |-> "mapping", mapping |-> p] :
             p \in { q \in ConfigMappings : Size(q) + Size(front) <= MaxKeys } }

\* generate_report.py is started from a shell with any arguments, or by
\* process_ticker, which upper-cases the ticker, passes its own report type
\* and no --markdown or --output, and has seen the markdown file.
InitRender ==
  /\ SplitIdle
  /\ AppendixIdle
  /\ StageIdle
  /\ parent \in {"shell", "process_ticker"}
  /\ report_type \in (IF parent = "process_ticker"
                      THEN PipelineReportTypes
                      ELSE ReportTypeChoices \cup PipelineReportTypes)
  /\ ticker \in (IF parent = "process_ticker"
                 THEN { upper(t) : t \in Tickers }
                 ELSE Tickers)
  /\ markdown_file \in (IF parent = "process_ticker" THEN {"None"} ELSE {"None", "given"})
  /\ output_file \in (IF parent = "process_ticker" THEN {"None"} ELSE {"None", "given"})
  /\ md_exists \in (IF parent = "process_ticker" THEN {TRUE} ELSE BOOLEAN)
  /\ ticker_dir_exists \in BOOLEAN
  /\ (markdown_file = "None" /\ md_exists) => ticker_dir_exists
  /\ rp_pc = "args"
  /\ meta = EmptyDict
  /\ config_file = NoFile
  /\ ticker_config = Dict(EmptyDict)
  /\ global_defaults = EmptyDict
  /\ data = EmptyDict
  /\ merged = EmptyDict
  /\ template_data = EmptyDict
  /\ output_path = NoPath
  /\ write_result = "none"
  /\ effects = <<>>
  /\ error = ""
  /\ returned = NoPath
  /\ exit_status = -1
  /\ pipeline = NotRun

\* argparse refuses a report type outside its choices: exit status 2.
ArgsRejected ==
  /\ rp_pc = "args"
  /\ report_type \notin ReportTypeChoices
  /\ exit_status' = 2
  /\ rp_pc' = "exited"
  /\ UNCHANGED <<split_vars, appendix_vars, stage_vars, render_args>>
  /\ UNCHANGED <<meta, config_file, ticker_config, global_defaults, data, merged,
                 template_data, output_path, write_result, effects, error, returned,
                 pipeline>>

\* __main__ calls render_pdf.
ArgsAccepted ==
  /\ rp_pc = "args"
  /\ report_type \in ReportTypeChoices
  /\ rp_pc' = "check_source"
  /\ UNCHANGED <<split_vars, appendix_vars, stage_vars, render_args>>
  /\ UNCHANGED <<meta, config_file, ticker_config, global_defaults, data, merged,
                 template_data, output_path, write_result, effects, error, returned,
                 exit_status, pipeline>>

\* raise FileNotFoundError
SourceMissing ==
  /\ rp_pc = "check_source"
  /\ source_missing(md_exists)
  /\ error' = "FileNotFoundError"
  /\ rp_pc' = "raised"
  /\ UNCHANGED <<split_vars, appendix_vars, stage_vars, render_args>>
  /\ UNCHANGED <<meta, config_file, ticker_config, global_defaults, data, merged,
                 template_data, output_path, write_result, effects, returned,
                 exit_status, pipeline>>

\* load_markdown_with_front_matter: the front matter is read, the appendix
\* extracted, the main content split by height and converted.
LoadMarkdown ==
  /\ rp_pc = "check_source"
  /\ ~source_missing(md_exists)
  /\ \E front \in FrontMatters :
       /\ Size(front) <= MaxKeys
       /\ meta' = front
  /\ effects' = effects \o <<"frontmatter_load", "extract_appendix", "split_by_height">>
  /\ rp_pc' = "load_config"
  /\ UNCHANGED <<split_vars, appendix_vars, stage_vars, render_args>>
  /\ UNCHANGED <<config_file, ticker_config, global_defaults, data, merged,
                 template_data, output_path, write_result, error, returned,
                 exit_status, pipeline>>

\* The ticker config file is read, if the ticker directory exists.
LoadConfig ==
  /\ rp_pc = "load_config"
  /\ ticker_dir_exists
  /\ \E file \in ConfigFiles(meta) :
       /\ config_file' = file
       /\ ticker_config' = load_config(report_type, ticker_dir_exists, file)
  /\ effects' = Append(effects, "load_config")
  /\ rp_pc' = "defaults"
  /\ UNCHANGED <<split_vars, appendix_vars, stage_vars, render_args>>
  /\ UNCHANGED <<meta, global_defaults, data, merged, template_data, output_path,
                 write_result, error, returned, exit_status, pipeline>>

\* No ticker directory: no file is read and the config is {}.
SkipConfig ==
  /\ rp_pc = "load_config"
  /\ ~ticker_dir_exists
  /\ ticker_config' = load_config(report_type, ticker_dir_exists, NoFile)
  /\ rp_pc' = "defaults"
  /\ UNCHANGED <<split_vars, appendix_vars, stage_vars, render_args>>
  /\ UNCHANGED <<meta, config_file, global_defaults, data, merged, template_data,
                 output_path, write_result, effects, error, returned, exit_status,
                 pipeline>>

\* The chart is looked up and global_defaults built.
BuildDefaults ==
  /\ rp_pc = "defaults"
  /\ \E chart_exists \in BOOLEAN :
       /\ chart_exists => ticker_dir_exists
       /\ global_defaults' = Defaults(chart_exists)
  /\ rp_pc' = "merge"
  /\ UNCHANGED <<split_vars, appendix_vars, stage_vars, render_args>>
  /\ UNCHANGED <<meta, config_file, ticker_config, data, merged, template_data,
                 output_path, write_result, effects, error, returned, exit_status,
                 pipeline>>

\* Line 532 on a ticker config that is not a mapping.
MergeRaises ==
  /\ rp_pc = "merge"
  /\ merge_raises(ticker_config)
  /\ error' = "TypeError"
  /\ rp_pc' = "raised"
  /\ UNCHANGED <<split_vars, appendix_vars, stage_vars, render_args>>
  /\ UNCHANGED <<meta, config_file, ticker_config, global_defaults, data, merged,
                 template_data, output_path, write_result, effects, returned,
                 exit_status, pipeline>>

\* Line 532.
Merge ==
  /\ rp_pc = "merge"
  /\ ~merge_raises(ticker_config)
  /\ data' = merge_config(global_defaults, ticker_config.items, meta)
  /\ merged' = data'
  /\ rp_pc' = "format"
  /\ UNCHANGED <<split_vars, appendix_vars, stage_vars, render_args>>
  /\ UNCHANGED <<meta, config_file, ticker_config, global_defaults, template_data,
                 output_path, write_result, effects, error, returned, exit_status,
                 pipeline>>

\* Lines 535-536.
FormatTableDate ==
  /\ rp_pc = "format"
  /\ data' = format_config(data)
  /\ rp_pc' = "template"
  /\ UNCHANGED <<split_vars, appendix_vars, stage_vars, render_args>>
  /\ UNCHANGED <<meta, config_file, ticker_config, global_defaults, merged,
                 template_data, output_path, write_result, effects, error, returned,
                 exit_status, pipeline>>

\* template.render(..., **data)
RenderTemplate ==
  /\ rp_pc = "template"
  /\ template_data' = data
  /\ effects' = Append(effects, "template_render")
  /\ rp_pc' = "name"
  /\ UNCHANGED <<split_vars, appendix_vars, stage_vars, render_args>>
  /\ UNCHANGED <<meta, config_file, ticker_config, global_defaults, data, merged,
                 output_path, write_result, error, returned, exit_status, pipeline>>

\* .replace or .split on a value that is not a string.
NameRaises ==
  /\ rp_pc = "name"
  /\ output_file = "None"
  /\ name_raises(report_type, ticker, data)
  /\ error' = "AttributeError"
  /\ rp_pc' = "raised"
  /\ UNCHANGED <<split_vars, appendix_vars, stage_vars, render_args>>
  /\ UNCHANGED <<meta, config_file, ticker_config, global_defaults, data, merged,
                 template_data, output_path, write_result, effects, returned,
                 exit_status, pipeline>>

\* Lines 563-581.
NameOutput ==
  /\ rp_pc = "name"
  /\ output_file # "None" \/ ~name_raises(report_type, ticker, data)
  /\ output_path' = choose_output_path(output_file, report_type, ticker, data)
  /\ rp_pc' = "mkdir"
  /\ UNCHANGED <<split_vars, appendix_vars, stage_vars, render_args>>
  /\ UNCHANGED <<meta, config_file, ticker_config, global_defaults, data, merged,
                 template_data, write_result, effects, error, returned, exit_status,
                 pipeline>>

\* output_path.parent.mkdir(parents=True, exist_ok=True)
MakeDirectory ==
  /\ rp_pc = "mkdir"
  /\ effects' = Append(effects, "mkdir")
  /\ rp_pc' = "write"
  /\ UNCHANGED <<split_vars, appendix_vars, stage_vars, render_args>>
  /\ UNCHANGED <<meta, config_file, ticker_config, global_defaults, data, merged,
                 template_data, output_path, write_result, error, returned,
                 exit_status, pipeline>>

\* write_pdf writes the file.
WriteSucceeds ==
  /\ rp_pc = "write"
  /\ write_result' = "ok"
  /\ effects' = Append(effects, "write_pdf")
  /\ rp_pc' = after_write(TRUE)
  /\ UNCHANGED <<split_vars, appendix_vars, stage_vars, render_args>>
  /\ UNCHANGED <<meta, config_file, ticker_config, global_defaults, data, merged,
                 template_data, output_path, error, returned, exit_status, pipeline>>

\* write_pdf raises.
WriteFails ==
  /\ rp_pc = "write"
  /\ write_result' = "failed"
  /\ effects' = Append(effects, "write_pdf")
  /\ error' = IF after_write(FALSE) = "raised" THEN "RenderError" ELSE error
  /\ rp_pc' = after_write(FALSE)
  /\ UNCHANGED <<split_vars, appendix_vars, stage_vars, render_args>>
  /\ UNCHANGED <<meta, config_file, ticker_config, global_defaults, data, merged,
                 template_data, output_path, returned, exit_status, pipeline>>

\* Lines 589-590: print Created and return the path.
ReportCreated ==
  /\ rp_pc = "report"
  /\ effects' = Append(effects, "print_created")
  /\ returned' = output_path
  /\ rp_pc' = "returned"
  /\ UNCHANGED <<split_vars, appendix_vars, stage_vars, render_args>>
  /\ UNCHANGED <<meta, config_file, ticker_config, global_defaults, data, merged,
                 template_data, output_path, write_result, error, exit_status,
                 pipeline>>

\* render_pdf returned to __main__, or its exception ended the program.
ProgramExits ==
  /\ rp_pc \in {"returned", "raised"}
  /\ exit_status' = status_of(rp_pc)
  /\ rp_pc' = "exited"
  /\ UNCHANGED <<split_vars, appendix_vars, stage_vars, render_args>>
  /\ UNCHANGED <<meta, config_file, ticker_config, global_defaults, data, merged,
                 template_data, output_path, write_result, effects, error, returned,
                 pipeline>>

\* process_ticker, lines 149-162, on the end of the program it started.
PipelineReacts ==
  /\ rp_pc = "exited"
  /\ parent = "process_ticker"
  /\ pipeline' = after_generate(exit_status)
  /\ rp_pc' = "reaped"
  /\ UNCHANGED <<split_vars, appendix_vars, stage_vars, render_args>>
  /\ UNCHANGED <<meta, config_file, ticker_config, global_defaults, data, merged,
                 template_data, output_path, write_result, effects, error, returned,
                 exit_status>>

NextRender ==
  \/ ArgsRejected
  \/ ArgsAccepted
  \/ SourceMissing
  \/ LoadMarkdown
  \/ LoadConfig
  \/ SkipConfig
  \/ BuildDefaults
  \/ MergeRaises
  \/ Merge
  \/ FormatTableDate
  \/ RenderTemplate
  \/ NameRaises
  \/ NameOutput
  \/ MakeDirectory
  \/ WriteSucceeds
  \/ WriteFails
  \/ ReportCreated
  \/ ProgramExits
  \/ PipelineReacts

\* One run of generate_report.py.
SpecRender == InitRender /\ [][NextRender]_vars

\* ------------------------------------------------ render_pdf: vocabulary

\* Line 532 has run: the defaults alone give the configuration keys.
Merged == DOMAIN merged # {}

\* The three layers of the merge.
LayerD == global_defaults
LayerP == ticker_config.items
LayerF == meta

BadFileKinds == {"missing", "unreadable", "invalid", "empty", "sequence", "scalar"}

\* The output path has been chosen from the configuration.
Named == output_path # NoPath /\ output_file = "None"

Field(d, tick, key) ==
  CASE key = "ticker" -> IF key \in DOMAIN d THEN d[key] ELSE Str(tick)
    [] key = "date" -> IF key \in DOMAIN d THEN d[key] ELSE DefaultDate
    [] OTHER -> IF key \in DOMAIN d THEN d[key] ELSE DefaultNumber

NameFields(d, tick) ==
  [key \in {"ticker", "issue_number", "date", "update_number"} |-> Field(d, tick, key)]

BeforeColon(s) ==
  LET colons == { j \in 1..Len(s) : s[j] = ":" }
  IN IF colons = {} THEN s
     ELSE SubSeq(s, 1, (CHOOSE j \in colons : \A o \in colons : j <= o) - 1)

IsNotPeriod(c) == c # "."
WithoutPeriods(s) == SelectSeq(s, IsNotPeriod)

PeriodsToSlashes(s) == [j \in 1..Len(s) |-> IF s[j] = "." THEN "/" ELSE s[j]]

\* The configurations a run can name its output from.
NamingConfigs ==
  { format_config(merge_config(Defaults(c), pf[1], pf[2])) :
      c \in BOOLEAN,
      pf \in { qf \in (ConfigMappings \X FrontMatters) :
                 Size(qf[1]) + Size(qf[2]) <= MaxKeys } }

\* Every run that names its output: its report type, ticker argument,
\* naming fields and the name it gives.
NamingRuns ==
  { [rtype |-> rt, tick |-> t, fields |-> NameFields(d, t), name |-> auto_filename(rt, t, d)] :
      rt \in ReportTypeChoices,
      t \in Tickers \cup { upper(u) : u \in Tickers },
      d \in { c \in NamingConfigs : dict_get(c, "date", DefaultDate).type = "str" } }

\* C15 (configuration merge): the merged configuration has exactly the keys
\* of the defaults D, the ticker config P and the front matter F, and each
\* key has the value of the highest layer defining it, F over P over D.
C15_ConfigMerge ==
  Merged =>
    /\ DOMAIN merged = DOMAIN LayerD \cup DOMAIN LayerP \cup DOMAIN LayerF
    /\ \A k \in DOMAIN merged :
         merged[k] = IF k \in DOMAIN LayerF THEN LayerF[k]
                     ELSE IF k \in DOMAIN LayerP THEN LayerP[k]
                     ELSE LayerD[k]

\* logo_img is defined by all three layers with three values and the merge
\* has F's; symbol_logo is defined by D alone; ticker by P alone.
C15_Witness ==
  /\ Merged
  /\ "logo_img" \in DOMAIN LayerD \cap DOMAIN LayerP \cap DOMAIN LayerF
  /\ LayerD["logo_img"] # LayerP["logo_img"]
  /\ LayerP["logo_img"] # LayerF["logo_img"]
  /\ LayerD["logo_img"] # LayerF["logo_img"]
  /\ merged["logo_img"] = LayerF["logo_img"]
  /\ "symbol_logo" \in DOMAIN merged \ (DOMAIN LayerP \cup DOMAIN LayerF)
  /\ "ticker" \in DOMAIN LayerP \ DOMAIN LayerF

\* C16 (bad persisted configuration never aborts generation): whatever the
\* ticker config file holds that is not a mapping (missing, unreadable,
\* invalid YAML, empty, a sequence or a scalar), that layer contributes no
\* key and the run does not raise at the merge.
C16_BadConfigNeverAborts ==
  config_file.kind \in BadFileKinds =>
    /\ error # "TypeError"
    /\ Merged => merged = merge_config(LayerD, EmptyDict, LayerF)

\* C17 (missing primary document): when the markdown file does not exist
\* the run does nothing before it aborts: no front matter is read, no
\* appendix extracted, no probe made, no config loaded, no directory made
\* and nothing written; the error is FileNotFoundError and no path is
\* returned.
C17_MissingSourceIsFatalFirst ==
  ~md_exists =>
    /\ effects = <<>>
    /\ config_file = NoFile
    /\ write_result = "none"
    /\ returned = NoPath
    /\ rp_pc \in {"idle", "args", "check_source", "raised", "exited", "reaped"}
    /\ rp_pc = "raised" => error = "FileNotFoundError"
    /\ (rp_pc = "exited" /\ report_type \in ReportTypeChoices) =>
         error = "FileNotFoundError" /\ exit_status = 1

C17_Witness ==
  /\ ~md_exists
  /\ rp_pc = "exited"
  /\ error = "FileNotFoundError"
  /\ exit_status = 1
  /\ ticker_dir_exists

\* C18 (final render failure): when write_pdf fails, render_pdf prints no
\* success line and returns no path, the exception leaves it and the
\* program ends with a non-zero status; process_ticker, on a non-zero
\* status of the program it started, exits with status 1 and prints no
\* summary.
C18_RenderFailureIsFatal ==
  /\ write_result = "failed" =>
       /\ ~\E n \in 1..Len(effects) : effects[n] = "print_created"
       /\ returned = NoPath
       /\ error = "RenderError"
       /\ rp_pc \in {"raised", "exited", "reaped"}
       /\ rp_pc \in {"exited", "reaped"} => exit_status = 1
  /\ (rp_pc = "reaped" /\ exit_status # 0) =>
       /\ pipeline.exit = 1
       /\ ~pipeline.summary

C18_Witness ==
  /\ write_result = "failed"
  /\ rp_pc = "exited"
  /\ exit_status = 1
  /\ error = "RenderError"
  /\ output_path # NoPath

C20_NeverMutatedAfterMerge ==
  Merged =>
    /\ data = merged
    /\ DOMAIN template_data # {} => template_data = merged

\* C20 (the configuration after the merge): every key other than table_date
\* keeps the value the merge gave it until the template receives it and the
\* file is named; table_date, once line 536 has run, is the merged value
\* with its periods replaced by slashes when that value is a non-empty
\* string, and the merged value itself otherwise.
C20_OnlyTableDateRewritten ==
  Merged =>
    /\ DOMAIN data = DOMAIN merged
    /\ \A k \in DOMAIN merged \ {"table_date"} : data[k] = merged[k]
    /\ ("table_date" \in DOMAIN merged /\ rp_pc # "format") =>
         data["table_date"] =
           IF merged["table_date"].type = "str" /\ merged["table_date"].v # <<>>
           THEN Str(PeriodsToSlashes(merged["table_date"].v))
           ELSE merged["table_date"]
    /\ DOMAIN template_data # {} => template_data = data
    /\ Named => output_path.name = auto_filename(report_type, ticker, data)

\* The template has received a table date that differs from the merged one,
\* next to a date with periods that was left alone.
C20_Witness ==
  /\ rp_pc = "mkdir"
  /\ Named
  /\ "table_date" \in DOMAIN merged
  /\ template_data["table_date"] # merged["table_date"]
  /\ "date" \in DOMAIN merged
  /\ WithoutPeriods(merged["date"].v) # merged["date"].v
  /\ template_data["date"] = merged["date"]

\* ------------------------------------- load_markdown_with_front_matter

\* Lines of the documents that are loaded: text, a heading, a list item, the
\* marker on a line of its own and inside a line.
LoadLineSet ==
  { <<>>,
    <<"a">>,
    <<"#", "h">>,
    <<"-", " ", "x">>,
    CommentOpen \o MarkerWord \o CommentClose,
    <<"b">> \o CommentOpen \o casefold(MarkerWord) \o CommentClose \o <<"c">> }

LoadTexts ==
  { join(<<NL>>, ls) : ls \in UNION { [1..n -> LoadLineSet] : n \in 0..MaxLines } }

split_input_WholeDocument(ex, text) == text

\* Line 423: the height-based split is given main_content.
split_input(ex, text) == ex.main_content

InitLoad ==
  /\ RenderIdle
  /\ StageIdle
  /\ markdown_content \in LoadTexts
  /\ apx_pc = "call"
  /\ extracted = NoExtract
  /\ content = <<>>
  /\ max_height_inches \in Budgets
  /\ pc = "idle"
  /\ i = ParseStart.i
  /\ current_block = ParseStart.current_block
  /\ blocks = ParseStart.blocks
  /\ block_i = 1
  /\ accumulated = <<>>
  /\ result = NoResult
  /\ measured = [t \in {} |-> t]
  /\ probes = <<>>
  /\ runs = {}

\* Lines 422-426: split_markdown_by_height is called once the appendix has
\* been extracted.
CallSplit ==
  /\ apx_pc = "done"
  /\ pc = "idle"
  /\ content' = split_input(extracted, markdown_content)
  /\ pc' = "parse"
  /\ UNCHANGED <<max_height_inches, parser_vars, paginator_vars, runs>>
  /\ UNCHANGED outside_split

NextLoad ==
  \/ ExtractUnmarked
  \/ ExtractMarked
  \/ CallSplit
  \/ ParseBlank
  \/ ParseHeading
  \/ ParseListItem
  \/ ParseParagraph
  \/ ParseEnd
  \/ ProbeFits
  \/ ProbeOverflows
  \/ ProbeFails
  \/ AllFits

\* One document loaded: its appendix extracted, then its main part split.
SpecLoad == InitLoad /\ [][NextLoad]_vars

\* The text of the document that is located before its first marker, or all
\* of it when it has none; and the text located after that marker.
TextBeforeMarker ==
  IF ContainsMarker(markdown_content)
  THEN BeforeMarker(markdown_content, FirstMarker(markdown_content))
  ELSE markdown_content
TextAfterMarker ==
  IF ContainsMarker(markdown_content)
  THEN AfterMarker(markdown_content, FirstMarker(markdown_content))
  ELSE <<>>

\* C21 (appendix extraction precedes and is independent of pagination): the
\* paginator starts only after the extraction and works on the main part
\* alone: every probe and both returned parts are made of the blocks of the
\* text before the marker, so nothing located after the marker is in them;
\* the appendix is the text after the marker, whatever max_height is.
C21_AppendixBeforePagination ==
  /\ pc # "idle" =>
       /\ Extracted
       /\ content = extracted.main_content
       /\ ContainsMarker(markdown_content) => content = strip(TextBeforeMarker)
  /\ \A n \in 1..Len(probes) :
       probes[n] = join(BlockSep, SubSeq(parse_markdown_blocks(strip(TextBeforeMarker)), 1, n))
  /\ (Done /\ ContainsMarker(markdown_content)) =>
       /\ FirstBlocks \o RestBlocks = parse_markdown_blocks(strip(TextBeforeMarker))
       /\ ~ContainsMarker(result.first_part)
       /\ ~ContainsMarker(result.rest_part)
  /\ Extracted =>
       /\ extracted.appendix_content = strip(TextAfterMarker)
       /\ extracted.has_appendix = ContainsMarker(markdown_content)

\* A document with text on both sides of its marker has been split in two
\* parts, and its appendix holds the text after the marker.
C21_Witness ==
  /\ Done
  /\ ContainsMarker(markdown_content)
  /\ extracted.appendix_content # <<>>
  /\ result.first_part # <<>>
  /\ result.rest_part # <<>>
  /\ Len(probes) = 2


\* ------------------------------------------------------------------
\* style_bold_headings (lines 260-298) as load_markdown_with_front_matter
\* calls it (lines 432-441).
\*
\* HTML is a sequence of tokens: a tag is one token, a piece of text is one
\* token, and a line break is NL.  The pattern of line 273 is made of whole
\* tags and of ".", which matches anything but a line break, so matching
\* token by token gives the spans the character pattern gives on text that
\* has no "<" of its own.

MaxParagraphs == 3

POpen == "<p>"
PClose == "</p>"
StrongOpen == "<strong>"
StrongClose == "</strong>"
\* Line 290: the opening tag of the restyled paragraph.
RedOpen == "<p style=\"color: #ff0000; font-size: 13pt; font-weight: 700;\">"
Tags == {POpen, PClose, StrongOpen, StrongClose, RedOpen}

\* Paragraphs as md_to_html writes them: one <p> element each.
BoldOnly(t) == <<POpen, StrongOpen, t, StrongClose, PClose>>
PlainParagraph == <<POpen, "x", PClose>>
\* "**A** x **B**": bold at both ends, plain text between.
BoldAtBothEnds == <<POpen, StrongOpen, "A", StrongClose, "x", StrongOpen, "B", StrongClose, PClose>>
\* "**A** x": bold at the start only.
BoldAtStart == <<POpen, StrongOpen, "A", StrongClose, "x", PClose>>
\* "**A\nB**": bold text that runs over two lines.
BoldTwoLines == <<POpen, StrongOpen, "A", NL, "B", StrongClose, PClose>>

ParagraphSet == { BoldOnly("K"), BoldOnly("L"), PlainParagraph,
                  BoldAtBothEnds, BoldAtStart, BoldTwoLines }

\* md_to_html puts a line break between block elements.
HtmlSet == { join(<<NL>>, ps) :
               ps \in UNION { [1..n -> ParagraphSet] : n \in 0..MaxParagraphs } }

\* Line 273, r'<p><strong>(.*?)</strong></p>', tried at position s: the
\* position just after the match, or 0.  ".*?" is lazy, so the match ends at
\* the first "</strong></p>" that no line break separates from the start.
pattern_match(h, s) ==
  IF s + 1 <= Len(h) /\ h[s] = POpen /\ h[s + 1] = StrongOpen
  THEN LET ends == { e \in (s + 2)..(Len(h) - 1) :
                       /\ h[e] = StrongClose
                       /\ h[e + 1] = PClose
                       /\ \A k \in (s + 2)..(e - 1) : h[k] # NL }
       IN  IF ends = {} THEN 0 ELSE Min(ends) + 2
  ELSE 0

\* Line 275: re.finditer, the matches from left to right, none overlapping.
\* A match is [start, end, group]: start and end as Python slices count
\* them (from 0, end exclusive).
RECURSIVE finditer_from(_, _)
finditer_from(h, s) ==
  IF s > Len(h) THEN <<>>
  ELSE LET e == pattern_match(h, s)
       IN  IF e = 0 THEN finditer_from(h, s + 1)
           ELSE <<[start |-> s - 1, end |-> e - 1,
                   group |-> SubSeq(h, s + 2, e - 3)]>> \o finditer_from(h, e)

finditer(h) == finditer_from(h, 1)

\* h[:n] and h[n:]
slice_to(h, n) == SubSeq(h, 1, n)
slice_from(h, n) == SubSeq(h, n + 1, Len(h))

\* Lines 288-294: the replacement for one match.
styled(is_first, bold_text) ==
  IF is_first
  THEN <<RedOpen, StrongOpen>> \o bold_text \o <<StrongClose, PClose>>
  ELSE <<POpen, StrongOpen>> \o bold_text \o <<StrongClose, PClose>>

InitStyle ==
  /\ SplitIdle
  /\ AppendixIdle
  /\ RenderIdle
  /\ PipelineIdle
  /\ MeasureIdle
  /\ html \in HtmlSet
  /\ part \in {"first_html", "rest_html"}
  /\ doc_type \in ReportTypeChoices
  /\ first_page = FALSE
  /\ make_first_red = TRUE
  /\ st_pc = "call"
  /\ matches = <<>>
  /\ st_i = 0
  /\ st_result = <<>>

style_frame == <<split_vars, appendix_vars, render_vars, pt_vars, measure_vars>>

\* Lines 435-441 and 275-277: the call, with nothing to restyle.
StyleNoMatches ==
  /\ st_pc = "call"
  /\ finditer(html) = <<>>
  /\ first_page' = (part = "first_html")
  /\ make_first_red' = (doc_type = "Initiating")
  /\ matches' = <<>>
  /\ st_result' = html
  /\ st_pc' = "done"
  /\ UNCHANGED <<html, part, doc_type, st_i>>
  /\ UNCHANGED style_frame

\* Lines 435-441 and 275-280: the call, with matches to go through.
StyleEnter ==
  /\ st_pc = "call"
  /\ finditer(html) # <<>>
  /\ first_page' = (part = "first_html")
  /\ make_first_red' = (doc_type = "Initiating")
  /\ matches' = finditer(html)
  /\ st_result' = html
  /\ st_i' = 0
  /\ st_pc' = "loop"
  /\ UNCHANGED <<html, part, doc_type>>
  /\ UNCHANGED style_frame

\* Line 284: the index, in matches, of the match the loop is at.
actual_index == Len(matches) - 1 - st_i

\* Line 296: result[:start] + styled + result[end:]
replace_span(text, match, new) ==
  slice_to(text, match.start) \o new \o slice_from(text, match.end)

\* Lines 283-290 and 296: a turn of the loop that takes the branch of line 288.
StyleFirstRed ==
  /\ st_pc = "loop"
  /\ st_i < Len(matches)
  /\ first_page /\ actual_index = 0 /\ make_first_red
  /\ st_result' = replace_span(st_result, matches[actual_index + 1],
                               styled(TRUE, matches[actual_index + 1].group))
  /\ st_i' = st_i + 1
  /\ UNCHANGED <<html, part, doc_type, first_page, make_first_red, st_pc, matches>>
  /\ UNCHANGED style_frame

\* Lines 283-286 and 291-296: a turn of the loop that takes the else branch.
StyleOther ==
  /\ st_pc = "loop"
  /\ st_i < Len(matches)
  /\ ~(first_page /\ actual_index = 0 /\ make_first_red)
  /\ st_result' = replace_span(st_result, matches[actual_index + 1],
                               styled(FALSE, matches[actual_index + 1].group))
  /\ st_i' = st_i + 1
  /\ UNCHANGED <<html, part, doc_type, first_page, make_first_red, st_pc, matches>>
  /\ UNCHANGED style_frame

\* Line 298.
StyleReturn ==
  /\ st_pc = "loop"
  /\ st_i = Len(matches)
  /\ st_pc' = "done"
  /\ UNCHANGED <<html, part, doc_type, first_page, make_first_red, matches, st_i, st_result>>
  /\ UNCHANGED style_frame

NextStyle == StyleNoMatches \/ StyleEnter \/ StyleFirstRed \/ StyleOther \/ StyleReturn

SpecStyle == InitStyle /\ [][NextStyle]_vars

\* --- vocabulary

Styled == st_pc = "done"

\* The <p> elements of h: where each opens and closes.
ParagraphsOf(h) ==
  { <<s, e>> \in (1..Len(h)) \X (1..Len(h)) :
      /\ s < e
      /\ h[s] \in {POpen, RedOpen}
      /\ h[e] = PClose
      /\ \A k \in s..(e - 1) : h[k] # PClose }

\* A paragraph whose whole content is one run of bold text.
IsBoldOnly(h, p) ==
  /\ p[2] - p[1] >= 4
  /\ h[p[1] + 1] = StrongOpen
  /\ h[p[2] - 1] = StrongClose
  /\ \A k \in (p[1] + 2)..(p[2] - 2) : h[k] \notin Tags

BoldOnlyStarts(h) == { p[1] : p \in { q \in ParagraphsOf(h) : IsBoldOnly(h, q) } }

\* h with the paragraph opening at s given the highlight style.
Highlighted(h, s) == [h EXCEPT ![s] = RedOpen]

\* C22: style_bold_headings restyles only the first bold-only paragraph, and
\* only for first-page content of an Initiating report; for an Update report
\* and for continuation-page content it returns its input unchanged, and
\* every bold-only paragraph after the first is left unchanged.
C22_OnlyFirstBoldOnlyParagraph ==
  Styled =>
    st_result = IF part = "first_html" /\ doc_type = "Initiating" /\ BoldOnlyStarts(html) # {}
                THEN Highlighted(html, Min(BoldOnlyStarts(html)))
                ELSE html


\* ------------------------------------------------------------------
\* The probes of one call of split_markdown_by_height (lines 203-232).

\* The k-th probe of the call came back within the budget.
NthProbeFitted(n) ==
  /\ probes[n] \in DOMAIN measured
  /\ measured[probes[n]].ok
  /\ ~Overflows(measured[probes[n]].height, max_height_inches)

\* C23 (probe discipline): the k-th probe measures exactly blocks 1..k joined
\* together, so there is one probe per block, in document order; every probe
\* but the last came back within the budget, so nothing is probed after the
\* first overflow or failure; and there are never more probes than blocks.
C23_ProbeDiscipline ==
  /\ Len(probes) <= Len(blocks)
  /\ \A n \in 1..Len(probes) : probes[n] = PrefixText(n)
  /\ \A n \in 1..(Len(probes) - 1) : NthProbeFitted(n)
  /\ pc = "split" => /\ Len(probes) = block_i - 1
                     /\ \A n \in 1..Len(probes) : NthProbeFitted(n)
  /\ pc = "parse" => probes = <<>>
  /\ Done => \/ /\ Len(probes) = Len(blocks)
                /\ \A n \in 1..Len(probes) : NthProbeFitted(n)
             \/ /\ probes # <<>>
                /\ ~NthProbeFitted(Len(probes))

\* A call that stopped at the second of three blocks: two probes, the second
\* one over the budget, the third block never probed.
C23_Witness ==
  /\ Done
  /\ Len(blocks) = 3
  /\ Len(probes) = 2
  /\ NthProbeFitted(1)
  /\ ProbeOverflowed(2)
  /\ ~Probed(3)


\* ------------------------------------------------------------------
\* Termination of split_markdown_by_height.
\*
\* Lines 189-201: the function is called on a document with a budget and
\* parses it; the loop over the blocks is about to start.
CallAndParse ==
  /\ pc = "idle"
  /\ max_height_inches' \in Budgets
  /\ \E d \in Documents :
       LET st == ParseLoop(splitlines(d), ParseStart)
       IN  /\ content' = d
           /\ i' = st.i
           /\ current_block' = st.current_block
           /\ blocks' = ParseReturn(st)
  /\ pc' = "split"
  /\ UNCHANGED <<paginator_vars, runs>>
  /\ UNCHANGED outside_split

InitLive ==
  /\ SplitIdle
  /\ AppendixIdle
  /\ RenderIdle
  /\ StageIdle

\* Lines 203-236: the steps of the loop over the blocks.
Paginate == ProbeFits \/ ProbeOverflows \/ ProbeFails \/ AllFits

NextLive == CallAndParse \/ Paginate

\* The function is sequential: its loop takes the blocks one by one, and
\* every probe comes back with a height or with an error.  Once the loop
\* has started, whatever step of it is enabled is therefore taken, which is
\* weak fairness on Paginate.
SpecLive == InitLive /\ [][NextLive]_vars /\ WF_vars(Paginate)

\* C24 (forward progress): whatever the blocks and whatever the probes
\* answer (a height within the budget, a height over it, or an error), the
\* loop over the blocks comes to a return with a pair of parts, not both
\* empty when there are blocks; an error of a probe does not leave the
\* function.
C24_ForwardProgress ==
  (pc = "split") ~> (Done /\ (blocks # <<>> => result # NoResult))

\* A call that returned after a fitting probe and then a failing one.
C24_Witness ==
  /\ Done
  /\ Len(probes) = 2
  /\ NthProbeFitted(1)
  /\ ProbeFailed(2)
  /\ result.first_part # <<>>
  /\ result.rest_part # <<>>


\* ------------------------------------------------------------------
\* The accumulator of split_markdown_by_height (lines 201-221).

\* The committed blocks, joined as a probe joins them.
AccumulatedText == join(BlockSep, accumulated)

\* C28 (height budget): whenever the accumulator is not empty it is a prefix
\* of the block sequence, the last probe of that prefix returned a height,
\* and that height was no more than max_height_inches; so a first part that
\* is the joined accumulator was measured at no more than the budget.
C28_HeightBudget ==
  /\ accumulated # <<>> =>
       /\ Len(accumulated) <= Len(blocks)
       /\ accumulated = SubSeq(blocks, 1, Len(accumulated))
       /\ Len(probes) >= Len(accumulated)
       /\ probes[Len(accumulated)] = AccumulatedText
       /\ AccumulatedText \in DOMAIN measured
       /\ measured[AccumulatedText].ok
       /\ measured[AccumulatedText].height <= max_height_inches
  /\ (Done /\ accumulated # <<>> /\ result.first_part = AccumulatedText) =>
       /\ result.first_part \in DOMAIN measured
       /\ measured[result.first_part].ok
       /\ measured[result.first_part].height <= max_height_inches

\* Two blocks committed, the third over the budget: the first part is the
\* two blocks, measured within the budget.
C28_Witness ==
  /\ Done
  /\ Len(blocks) = 3
  /\ Len(accumulated) = 2
  /\ result.first_part = AccumulatedText
  /\ ProbeFitted(2)
  /\ ProbeOverflowed(3)


\* ------------------------------------------------------------------
\* Joining blocks and parsing them again (lines 17-86, 216-236).

\* The blocks from k on.
BlocksFrom(k) == SubSeq(blocks, k, Len(blocks))
\* The first k blocks.
BlocksTo(k) == SubSeq(blocks, 1, k)

\* Joining bs with blank lines and parsing the text gives bs again.
Reparses(bs) == parse_markdown_blocks(join(BlockSep, bs)) = bs

\* C29 (parts can be parsed again): joining the blocks of a document, or
\* any leading or trailing run of them, with blank lines and parsing the
\* result gives the same blocks (stated where the loop over the blocks
\* starts: the blocks do not change after that); so parsing the returned first part gives
\* the blocks that went to the first page and parsing the returned rest
\* gives the blocks that went to the overflow.
C29_Reconstructable ==
  /\ (pc = "split" /\ block_i = 1) =>
       \A k \in 0..Len(blocks) : Reparses(BlocksTo(k)) /\ Reparses(BlocksFrom(k + 1))
  /\ Done =>
       LET n == Len(FirstBlocks)
       IN  /\ n <= Len(blocks)
           /\ FirstBlocks = BlocksTo(n)
           /\ RestBlocks = BlocksFrom(n + 1)
           /\ \/ n = Len(accumulated)
              \/ accumulated = <<>> /\ n = 1 /\ ProbeFailed(1)

\* A bullet with a continuation line went to the first page and one more
\* block to the overflow.
C29_Witness ==
  /\ Done
  /\ Len(blocks) = 2
  /\ FirstBlocks = <<blocks[1]>>
  /\ RestBlocks = <<blocks[2]>>
  /\ \E k \in 1..Len(blocks[1]) : blocks[1][k] = NL


\* ------------------------------------------------------------------
\* process_ticker.py: main (lines 68-162), get_pdf_filename (23-42) and
\* run_command (45-65), with the two programs it starts as children.

\* docx_to_markdown.py line 331: click.Choice(['Initiating', 'Update'])
ConverterReportTypes == {"Initiating", "Update"}

UnderscoreReport == <<"_", "r", "e", "p", "o", "r", "t">>

\* Line 42: f'{ticker}_report.pdf'
default_pdf_filename(tick) == tick \o UnderscoreReport \o DotPdf

\* A value inside a config file that is itself a mapping.
Nested(d) == [type |-> "dict", v |-> d]

\* get_pdf_filename: the three fields of report_saving when the config file
\* parses to a non-empty mapping that has them; the default name when the
\* file is missing or anything in the try block raises.
get_pdf_filename(tick, file) ==
  IF /\ file.kind = "mapping"
     /\ file.mapping # EmptyDict
     /\ "report_saving" \in DOMAIN file.mapping
  THEN LET rs == file.mapping["report_saving"]
       IN  IF rs.type = "dict" /\ {"ticker", "issue", "date"} \subseteq DOMAIN rs.v
           THEN format_value(rs.v["ticker"]) \o <<".">> \o format_value(rs.v["issue"])
                  \o <<".">> \o format_value(rs.v["date"]) \o DotPdf
           ELSE default_pdf_filename(tick)
  ELSE default_pdf_filename(tick)

\* Lines 89-93: ticker_dir and the name in it.
pdf_path(tick, rtype, file) ==
  [dir |-> <<"Tickers", tick, rtype>>, name |-> get_pdf_filename(tick, file)]

\* The exit status of the docx_to_markdown child: click refuses a report
\* type outside its choices with status 2; otherwise the conversion ends
\* with 0, or with 1 from the except branch of its main (lines 366-373).
ConvertStatuses(rtype) == IF rtype \in ConverterReportTypes THEN {0, 1} ELSE {2}

\* The exit status of the generate_report child: argparse refuses a report
\* type outside its choices with status 2; otherwise render_pdf returns (0)
\* or an exception leaves it (1).
GenerateStatuses(rtype) ==
  IF rtype \in ReportTypeChoices THEN {status_of("returned"), status_of("raised")} ELSE {2}

\* The report_saving entries a config file can have.
ReportSavings ==
  { Nested([ticker |-> Str(<<"A", "Z">>), issue |-> Str(<<"I", "7">>), date |-> Str(<<"3", "4">>)]),
    Nested([ticker |-> Str(<<"A", "Z">>), issue |-> Str(<<"I", "7">>)]),
    None }

\* The config files get_pdf_filename can meet.
PipelineConfigFiles ==
  { [kind |-> k, mapping |-> EmptyDict] : k \in FileKinds \ {"mapping"} }
    \cup { [kind |-> "mapping", mapping |-> [issue_number |-> Str(<<"7">>)]] }
    \cup { [kind |-> "mapping", mapping |-> [report_saving |-> rs]] : rs \in ReportSavings }

\* process_ticker is started from a shell with any report type, any flags,
\* and the files present or not.
InitPipeline ==
  /\ SplitIdle
  /\ AppendixIdle
  /\ RenderIdle
  /\ StyleIdle
  /\ MeasureIdle
  /\ pt_ticker \in Tickers
  /\ pt_report_type \in PipelineReportTypes \cup ReportTypeChoices
  /\ skip_conversion \in BOOLEAN
  /\ skip_pdf \in BOOLEAN
  /\ docx_exists \in BOOLEAN
  /\ markdown_exists \in BOOLEAN
  /\ pt_config \in PipelineConfigFiles
  /\ pt_pc = "args"
  /\ pdf_file = NoPath
  /\ started = <<>>
  /\ conv_status = -1
  /\ gen_status = -1
  /\ pt_exit = -1
  /\ summary = <<>>

pt_frame == <<split_vars, appendix_vars, render_vars, style_vars, measure_vars, pt_args>>

\* sys.exit(1)
PtExit1 ==
  /\ pt_exit' = 1
  /\ pt_pc' = "exited"

\* Line 70: click refuses a report type outside its choices: status 2.
PtArgsRejected ==
  /\ pt_pc = "args"
  /\ pt_report_type \notin PipelineReportTypes
  /\ pt_exit' = 2
  /\ pt_pc' = "exited"
  /\ UNCHANGED <<pt_ticker, markdown_exists, pdf_file, started, conv_status, gen_status, summary>>
  /\ UNCHANGED pt_frame

\* Lines 85-101: the paths are computed and printed.
PtStart ==
  /\ pt_pc = "args"
  /\ pt_report_type \in PipelineReportTypes
  /\ pt_ticker' = upper(pt_ticker)
  /\ pdf_file' = pdf_path(upper(pt_ticker), pt_report_type, pt_config)
  /\ pt_pc' = "step1"
  /\ UNCHANGED <<markdown_exists, started, conv_status, gen_status, pt_exit, summary>>
  /\ UNCHANGED pt_frame

\* Lines 104-109: the DOCX file is not there.
PtDocxMissing ==
  /\ pt_pc = "step1"
  /\ ~skip_conversion
  /\ ~docx_exists
  /\ PtExit1
  /\ UNCHANGED <<pt_ticker, markdown_exists, pdf_file, started, conv_status, gen_status, summary>>
  /\ UNCHANGED pt_frame

\* Lines 111-123: the conversion is run with process_ticker's report type;
\* a conversion that ends well has written the Markdown file.
PtConvert ==
  /\ pt_pc = "step1"
  /\ ~skip_conversion
  /\ docx_exists
  /\ started' = Append(started, "convert")
  /\ \E status \in ConvertStatuses(pt_report_type) :
       /\ conv_status' = status
       /\ markdown_exists' = (markdown_exists \/ status = 0)
       /\ IF run_command(status)
          THEN pt_pc' = "step2" /\ pt_exit' = pt_exit
          ELSE PtExit1
  /\ UNCHANGED <<pt_ticker, pdf_file, gen_status, summary>>
  /\ UNCHANGED pt_frame

\* Lines 124-130: conversion is skipped but the PDF needs a Markdown file
\* that is not there.
PtSkipWithoutMarkdown ==
  /\ pt_pc = "step1"
  /\ skip_conversion
  /\ ~skip_pdf /\ ~markdown_exists
  /\ PtExit1
  /\ UNCHANGED <<pt_ticker, markdown_exists, pdf_file, started, conv_status, gen_status, summary>>
  /\ UNCHANGED pt_frame

\* Lines 124-130: conversion is skipped.
PtSkipConversion ==
  /\ pt_pc = "step1"
  /\ skip_conversion
  /\ ~(~skip_pdf /\ ~markdown_exists)
  /\ pt_pc' = "step2"
  /\ UNCHANGED <<pt_ticker, markdown_exists, pdf_file, started, conv_status, gen_status,
                 pt_exit, summary>>
  /\ UNCHANGED pt_frame

\* Lines 133-150: without the Markdown file the program exits; with it the
\* PDF generation is run with process_ticker's report type.
PtGenerate ==
  /\ pt_pc = "step2"
  /\ ~skip_pdf
  /\ IF ~markdown_exists
     THEN /\ PtExit1
          /\ UNCHANGED <<started, gen_status>>
     ELSE /\ started' = Append(started, "generate")
          /\ \E status \in GenerateStatuses(pt_report_type) :
               /\ gen_status' = status
               /\ IF run_command(status)
                  THEN pt_pc' = "summary" /\ pt_exit' = pt_exit
                  ELSE PtExit1
  /\ UNCHANGED <<pt_ticker, markdown_exists, pdf_file, conv_status, summary>>
  /\ UNCHANGED pt_frame

\* Lines 151-152: PDF generation is skipped.
PtSkipPdf ==
  /\ pt_pc = "step2"
  /\ skip_pdf
  /\ pt_pc' = "summary"
  /\ UNCHANGED <<pt_ticker, markdown_exists, pdf_file, started, conv_status, gen_status,
                 pt_exit, summary>>
  /\ UNCHANGED pt_frame

\* Lines 154-162: "Pipeline completed", the Markdown path unless conversion
\* was skipped, the PDF path unless the PDF was skipped; main returns.
PtSummary ==
  /\ pt_pc = "summary"
  /\ summary' = <<"Pipeline completed">>
                  \o (IF ~skip_conversion THEN <<"Markdown">> ELSE <<>>)
                  \o (IF ~skip_pdf THEN <<"PDF Report">> ELSE <<>>)
  /\ pt_exit' = 0
  /\ pt_pc' = "exited"
  /\ UNCHANGED <<pt_ticker, markdown_exists, pdf_file, started, conv_status, gen_status>>
  /\ UNCHANGED pt_frame

NextPipeline ==
  \/ PtArgsRejected
  \/ PtStart
  \/ PtDocxMissing
  \/ PtConvert
  \/ PtSkipWithoutMarkdown
  \/ PtSkipConversion
  \/ PtGenerate
  \/ PtSkipPdf
  \/ PtSummary

SpecPipeline == InitPipeline /\ [][NextPipeline]_vars

\* --- vocabulary

Started(stage) == \E n \in 1..Len(started) : started[n] = stage
Completed == summary # <<>>
PtExited == pt_pc = "exited"
\* main was entered: click accepted the arguments.
PtAccepted == pt_pc \notin {"idle", "args"}

\* C25 (stage ordering): PDF generation is started only after the conversion
\* has ended with status 0 or been skipped, and only with the Markdown file
\* there; when the DOCX or the Markdown file is missing or a stage ends with a
\* status other than 0 the process exits with status 1, starts no later
\* stage and never prints the summary; and the summary is printed only by a
\* run in which every stage that was not skipped ended with status 0.
C25_StageOrdering ==
  /\ started \in {<<>>, <<"convert">>, <<"generate">>, <<"convert", "generate">>}
  /\ Started("convert") => ~skip_conversion /\ docx_exists /\ conv_status # -1
  /\ Started("generate") =>
       /\ ~skip_pdf
       /\ skip_conversion \/ conv_status = 0
       /\ markdown_exists
       /\ gen_status # -1
  /\ conv_status \notin {-1, 0} =>
       pt_exit = 1 /\ PtExited /\ ~Started("generate") /\ ~Completed
  /\ gen_status \notin {-1, 0} => pt_exit = 1 /\ PtExited /\ ~Completed
  /\ (pt_pc \in {"step2", "summary", "exited"} /\ PtAccepted /\ pdf_file # NoPath
        /\ ~skip_conversion /\ ~docx_exists) =>
       pt_exit = 1 /\ started = <<>> /\ ~Completed
  /\ (pt_pc \in {"summary", "exited"} /\ pdf_file # NoPath
        /\ ~skip_pdf /\ ~markdown_exists) =>
       pt_exit = 1 /\ ~Started("generate") /\ ~Completed
  /\ pt_exit = 1 => PtExited /\ ~Completed
  /\ Completed =>
       /\ pt_exit = 0
       /\ ~skip_conversion => conv_status = 0
       /\ ~skip_pdf => gen_status = 0 /\ markdown_exists

\* Conversion was skipped, the Markdown file was there, PDF generation was
\* started and failed: exit status 1 and no summary.
C25_Witness ==
  /\ PtExited
  /\ skip_conversion
  /\ started = <<"generate">>
  /\ gen_status # 0
  /\ pt_exit = 1
  /\ ~Completed

\* C26 (report types agree along the pipeline): a report type that
\* process_ticker accepts is accepted by each child it starts with that
\* value: no child ends with the usage-error status 2.
C26_ReportTypesCompatible ==
  PtAccepted => conv_status # 2 /\ gen_status # 2


\* ------------------------------------------------------------------
\* The PDF path process_ticker prints and the one generate_report writes.

\* generate_report.py lines 604-605, the help of --output: "defaults to
\* Tickers/{ticker}/{report_type}/{ticker}_report.pdf".
documented_output_name(tick) == tick \o UnderscoreReport \o DotPdf

\* generate_report has written the PDF under a name of its own choosing.
WrittenUnderOwnName == write_result = "ok" /\ output_file = "None"

\* C27 (announced path is written path): when no output path is given, the
\* file generate_report writes has the name process_ticker computes for the
\* same ticker and config file, which is also the default name the help of
\* --output documents.
C27_AnnouncedIsWritten ==
  WrittenUnderOwnName =>
    /\ output_path.name = get_pdf_filename(upper(ticker), config_file)
    /\ output_path.name = documented_output_name(ticker)


\* ------------------------------------------------------------------
\* measure_content_height (lines 89-186), from the rendered PDF on: the
\* backend has laid the probe out on pages, and PyMuPDF gives the text
\* blocks of a page, each with or without a bounding box.

MaxPages == 2
MaxPageBlocks == 2

\* Bottom coordinates, in points from the top of the page: one inch and ten.
Bottoms == {72, 720}

\* A block of page.get_text("dict")["blocks"]: bbox[3] when it has a bbox.
BlockSet == { [has_bbox |-> TRUE, bottom |-> b] : b \in Bottoms }
              \cup { [has_bbox |-> FALSE, bottom |-> 0] }

PageSet == UNION { [1..n -> BlockSet] : n \in 0..MaxPageBlocks }

\* What the backend can produce for a probe.
Layouts == UNION { [1..n -> PageSet] : n \in 0..MaxPages }

\* Lines 176-179: max_y = 0, then the largest bbox[3] of the blocks that
\* have a bbox.
RECURSIVE max_bottom(_)
max_bottom(page_blocks) ==
  IF page_blocks = <<>> THEN 0
  ELSE LET rest == max_bottom(Tail(page_blocks))
           block == Head(page_blocks)
       IN  IF block.has_bbox /\ block.bottom > rest THEN block.bottom ELSE rest

InitMeasure ==
  /\ SplitIdle
  /\ AppendixIdle
  /\ RenderIdle
  /\ StyleIdle
  /\ PipelineIdle
  /\ ms_doc \in Layouts
  /\ ms_pc = "opened"
  /\ height_inches = inches(0)

measure_frame == <<split_vars, appendix_vars, render_vars, style_vars, pt_vars>>

\* Lines 165-166: a PDF without pages.
MeasureNoPages ==
  /\ ms_pc = "opened"
  /\ Len(ms_doc) = 0
  /\ height_inches' = inches(0)
  /\ ms_pc' = "done"
  /\ UNCHANGED ms_doc
  /\ UNCHANGED measure_frame

\* Lines 168-173: the first page has no blocks.
MeasureNoBlocks ==
  /\ ms_pc = "opened"
  /\ Len(ms_doc) # 0
  /\ ms_doc[1] = <<>>
  /\ height_inches' = inches(0)
  /\ ms_pc' = "done"
  /\ UNCHANGED ms_doc
  /\ UNCHANGED measure_frame

\* Lines 168-186: the blocks of page = doc[0] are gone through and the
\* largest bottom, in inches, is returned.
MeasureFirstPage ==
  /\ ms_pc = "opened"
  /\ Len(ms_doc) # 0
  /\ ms_doc[1] # <<>>
  /\ height_inches' = inches(max_bottom(ms_doc[1]))
  /\ ms_pc' = "done"
  /\ UNCHANGED ms_doc
  /\ UNCHANGED measure_frame

NextMeasure == MeasureNoPages \/ MeasureNoBlocks \/ MeasureFirstPage

SpecMeasure == InitMeasure /\ [][NextMeasure]_vars

\* --- vocabulary

Measured == ms_pc = "done"

\* The bottoms of all the content of a layout, whatever page it is on.
AllBottoms(doc) ==
  { doc[p][k].bottom : <<p, k>> \in { <<q, j>> \in (1..Len(doc)) \X (1..MaxPageBlocks + 1) :
                                         j <= Len(doc[q]) /\ doc[q][j].has_bbox } }

\* The largest bottom of a layout; 0 without content.
MaxExtent(doc) == IF AllBottoms(doc) = {} THEN 0 ELSE Max(AllBottoms(doc))

\* C30 (height is the extent of all the content): the height returned is the
\* largest bottom coordinate, in inches, over all the content laid out for
\* the probe, on whatever page of the output the backend placed it.
C30_ExtentOfAllContent ==
  Measured => height_inches = inches(MaxExtent(ms_doc))

====
